---- MODULE Spec2Model ----
(***************************************************************************)
(* Model of the py_et_lib evapotranspiration framework:                    *)
(*   utils/validators.py, core/base_models.py, core/constants.py,          *)
(*   models/aet.py (MOD16, PMLv2, PTJPL, GLEAM, SEBAL, SSEBop) and         *)
(*   models/pet.py (fao56_penman_monteith),                                *)
(*   models/energy_balance.py (SSEBop);                                    *)
(* and of the pet_comparison package: utils/constants.py, formulas/*.py    *)
(* and analysis/comparison.py (PETComparison).                             *)
(*                                                                         *)
(* Numbers.  The code computes in IEEE binary64 through numpy/xarray.      *)
(* Here a float is a decimal floating-point value with an 8-digit          *)
(* mantissa, s * m * 10^e, together with NaN and +/-Inf, and every         *)
(* operation rounds its result to 8 digits.  Division by zero, Inf - Inf   *)
(* and NaN propagate as numpy propagates them (no exception).  Negative    *)
(* zero is not distinguished from zero.                                    *)
(*                                                                         *)
(* Arrays.  A DataArray is a function from the cells <<t, p>> of the       *)
(* dataset (time step t, spatial pixel p: lat x lon flattened) to floats;  *)
(* arithmetic on arrays is elementwise.                                    *)
(***************************************************************************)
EXTENDS Integers, Sequences, FiniteSets, TLC

VARIABLES ds, model, built, et, parts, check, trace

vars == <<ds, model, built, et, parts, check, trace>>

(***************************************************************************)
(* Decimal floating point                                                  *)
(***************************************************************************)
MLo == 10 ^ 7
MHi == 10 ^ 8

NaN == [k |-> "nan", s |-> 1, m |-> 0, e |-> 0]
Zero == [k |-> "fin", s |-> 1, m |-> 0, e |-> 0]
Inf(sg) == [k |-> "inf", s |-> sg, m |-> 0, e |-> 0]

IsNaN(x) == x = NaN
IsInf(x) == x.k = "inf"
IsFin(x) == x.k = "fin"
IsZero(x) == x.k = "fin" /\ x.m = 0

Abs(i) == IF i < 0 THEN -i ELSE i
Sgn(i) == IF i < 0 THEN -1 ELSE 1

\* 10^n for the shifts that occur between 8-digit mantissas
Pow10(n) == 10 ^ n

\* the number of decimal digits of m > 0
Digits(m) ==
    CASE m < 10 -> 1 [] m < 100 -> 2 [] m < 1000 -> 3 [] m < 10000 -> 4
      [] m < 100000 -> 5 [] m < 1000000 -> 6 [] m < 10000000 -> 7
      [] m < 100000000 -> 8 [] m < 1000000000 -> 9 [] OTHER -> 10

\* m > 0 has n digits: scale up to 8 digits, or drop the digits below
\* p = 10^(n-8) rounding half up (which can carry into a ninth digit)
NormDigits(sg, m, e, n) ==
    IF n <= 8 THEN [k |-> "fin", s |-> sg, m |-> m * Pow10(8 - n), e |-> e - (8 - n)]
    ELSE LET p == Pow10(n - 8)
             q == (m \div p) + (IF (m % p) * 2 >= p THEN 1 ELSE 0)
         IN  IF q >= MHi THEN [k |-> "fin", s |-> sg, m |-> q \div 10, e |-> e + (n - 8) + 1]
             ELSE [k |-> "fin", s |-> sg, m |-> q, e |-> e + (n - 8)]

\* s * m * 10^e with m brought into [MLo, MHi), rounding half up when digits
\* are dropped.
Norm(sg, m, e) == IF m = 0 THEN Zero ELSE NormDigits(sg, m, e, Digits(m))

\* The float written i * 10^e in the source (0.6108 is F(6108, -4)).
F(i, e) == Norm(Sgn(i), Abs(i), e)

One == F(1, 0)

Neg(x) == IF x = NaN THEN x ELSE IF IsZero(x) THEN x ELSE [x EXCEPT !.s = -x.s]

Add(x, y) ==
    IF x = NaN THEN NaN
    ELSE IF y = NaN THEN NaN
    ELSE IF IsInf(x) THEN (IF IsInf(y) /\ y.s # x.s THEN NaN ELSE x)
    ELSE IF IsInf(y) THEN y
    ELSE IF x.m = 0 THEN y
    ELSE IF y.m = 0 THEN x
    ELSE LET xBig == x.e >= y.e
             b == IF xBig THEN x ELSE y
             c == IF xBig THEN y ELSE x
             d == b.e - c.e
         IN  IF d >= 10 THEN b
             ELSE LET sum == b.s * (b.m * 10) + c.s * ((c.m * 10) \div Pow10(d))
                  IN  Norm(Sgn(sum), Abs(sum), b.e - 1)

Sub(x, y) == Add(x, Neg(y))

Mul(x, y) ==
    IF x = NaN THEN NaN
    ELSE IF y = NaN THEN NaN
    ELSE IF IsInf(x) \/ IsInf(y)
         THEN (IF IsZero(x) \/ IsZero(y) THEN NaN ELSE Inf(x.s * y.s))
    ELSE IF x.m = 0 \/ y.m = 0 THEN Zero
    ELSE LET h1 == x.m \div 10000
             l1 == x.m % 10000
             h2 == y.m \div 10000
             l2 == y.m % 10000
             cross == h1 * l2 + l1 * h2
             p == h1 * h2 * 10 + (cross + (l1 * l2) \div 10000) \div 1000
         IN  Norm(x.s * y.s, p, x.e + y.e + 7)

\* floor(r0 * 10^8 / d) for 0 <= r0 < d, one decimal digit at a time.
LongDiv(r0, d) ==
    LET r1 == (r0 * 10) % d
        r2 == (r1 * 10) % d
        r3 == (r2 * 10) % d
        r4 == (r3 * 10) % d
        r5 == (r4 * 10) % d
        r6 == (r5 * 10) % d
        r7 == (r6 * 10) % d
    IN  ((r0 * 10) \div d) * 10000000 + ((r1 * 10) \div d) * 1000000
        + ((r2 * 10) \div d) * 100000 + ((r3 * 10) \div d) * 10000
        + ((r4 * 10) \div d) * 1000 + ((r5 * 10) \div d) * 100
        + ((r6 * 10) \div d) * 10 + ((r7 * 10) \div d)

Div(x, y) ==
    IF x = NaN THEN NaN
    ELSE IF y = NaN THEN NaN
    ELSE IF IsInf(x) THEN (IF IsInf(y) THEN NaN ELSE Inf(x.s * y.s))
    ELSE IF IsInf(y) THEN Zero
    ELSE IF y.m = 0 THEN (IF x.m = 0 THEN NaN ELSE Inf(x.s))
    ELSE IF x.m = 0 THEN Zero
    ELSE Norm(x.s * y.s, (x.m \div y.m) * 100000000 + LongDiv(x.m % y.m, y.m),
              x.e - y.e - 8)

\* x < y; every comparison with NaN is false.
Lt(x, y) ==
    IF x = NaN THEN FALSE
    ELSE IF y = NaN THEN FALSE
    ELSE IF IsInf(x) THEN x.s = -1 /\ ~(IsInf(y) /\ y.s = -1)
    ELSE IF IsInf(y) THEN y.s = 1
    ELSE LET xs == IF x.m = 0 THEN 0 ELSE x.s
             ys == IF y.m = 0 THEN 0 ELSE y.s
         IN  IF xs # ys THEN xs < ys
             ELSE IF xs = 0 THEN FALSE
             ELSE IF x.e # y.e THEN (IF xs = 1 THEN x.e < y.e ELSE x.e > y.e)
             ELSE (IF xs = 1 THEN x.m < y.m ELSE x.m > y.m)

Gt(x, y) == Lt(y, x)
Le(x, y) == ~IsNaN(x) /\ ~IsNaN(y) /\ ~Lt(y, x)
Ge(x, y) == Le(y, x)


Sq(x) == Mul(x, x)

\* np.exp.  exp(x) = e^n * e^(i/8) * exp(g) with n an integer, i in 0 .. 7 and
\* |g| <= 1/16: the first two factors are tabulated to 8 digits and exp(g) is
\* its Taylor series up to g^5/5!.  Outside [-8, 8], exp(x) = exp(x/2)^2.
ExpInt ==
    [n \in -8 .. 8 |->
        [k |-> "fin", s |-> 1,
         m |-> <<33546263, 91188197, 24787522, 67379470, 18315639, 49787068,
                 13533528, 36787944, 10000000, 27182818, 73890561, 20085537,
                 54598150, 14841316, 40342879, 10966332, 29809580>>[n + 9],
         e |-> <<-11, -11, -10, -10, -9, -9, -8, -8, -7, -7, -7, -6, -6, -5, -5,
                 -4, -4>>[n + 9]]]

ExpEighth ==
    [i \in 0 .. 7 |->
        [k |-> "fin", s |-> 1,
         m |-> <<10000000, 11331485, 12840254, 14549914, 16487213, 18682460,
                 21170000, 23988753>>[i + 1],
         e |-> -7]]

\* the integer nearest to a finite y with |y| < 100
RoundInt(y) ==
    IF y.m = 0 \/ y.e < -9 THEN 0
    ELSE y.s * ((y.m + 5 * Pow10(-y.e - 1)) \div Pow10(-y.e))

\* acc holds the terms below g^(n-1)/(n-1)!, which is term.
RECURSIVE ExpSeries(_, _, _, _)
ExpSeries(g, term, acc, n) ==
    IF acc = NaN THEN acc
    ELSE IF n > 6 THEN acc
    ELSE ExpSeries(g, Div(Mul(term, g), F(n, 0)), Add(acc, term), n + 1)

\* x = j/8 + g
ExpReduced(j, g) ==
    Mul(Mul(ExpInt[j \div 8], ExpEighth[j % 8]), ExpSeries(g, g, One, 2))

ExpRound(x, j) == ExpReduced(j, Sub(x, F(j * 125, -3)))

RECURSIVE Exp(_)
Exp(x) ==
    IF x = NaN THEN NaN
    ELSE IF IsInf(x) THEN (IF x.s = 1 THEN x ELSE Zero)
    ELSE IF Lt(F(8, 0), x) \/ Lt(x, F(-8, 0)) THEN Sq(Exp(Div(x, F(2, 0))))
    ELSE ExpRound(x, RoundInt(Mul(x, F(8, 0))))

\* DataArray.clip(min=lo): np.clip keeps NaN.
ClipMin(x, lo) == IF Lt(x, lo) THEN lo ELSE x
ClipMax(x, hi) == IF Gt(x, hi) THEN hi ELSE x
\* DataArray.clip(lo, hi)
Clip(x, lo, hi) == ClipMax(ClipMin(x, lo), hi)

\* xr.where(cond, a, b) at one cell
Where(cond, a, b) == IF cond THEN a ELSE b

(***************************************************************************)
(* Arrays: elementwise operations with numpy broadcasting of scalars       *)
(***************************************************************************)
Float == [k : {"fin", "inf", "nan"}, s : {-1, 1}, m : Nat, e : Int]
A1(Op(_), a) == CASE a \in [DOMAIN a -> Float] -> [c \in DOMAIN a |-> Op(a[c])]
AA(Op(_, _), a, b) ==
    CASE a \in [DOMAIN a -> Float] ->
        CASE b \in [DOMAIN b -> Float] -> [c \in DOMAIN a |-> Op(a[c], b[c])]
AS(Op(_, _), a, x) == CASE a \in [DOMAIN a -> Float] -> [c \in DOMAIN a |-> Op(a[c], x)]
SA(Op(_, _), x, a) == CASE a \in [DOMAIN a -> Float] -> [c \in DOMAIN a |-> Op(x, a[c])]

\* xr.zeros_like(a) + x
Full(a, x) == [c \in DOMAIN a |-> Add(Zero, x)]

Range(f) == {f[i] : i \in DOMAIN f}

(***************************************************************************)
(* Datasets.  dims is the set of dimension names, nt the length of "time", *)
(* np the number of spatial pixels (1 when there is no lat/lon dimension), *)
(* vars maps the names of the fields present to their arrays.              *)
(***************************************************************************)
Cells(d) == (1 .. d.nt) \X (1 .. d.np)

Has(d, name) == name \in DOMAIN d.vars

\* ds.get(name, default)
Get(d, name, default) == IF Has(d, name) THEN d.vars[name] ELSE default

(***************************************************************************)
(* Outcome of a call: a returned value or a raised exception               *)
(***************************************************************************)
None == "None"

Return(v) == [status |-> "returned", exc |-> "", msg |-> <<>>, val |-> v]
Raise(exc, msg) == [status |-> "raised", exc |-> exc, msg |-> msg, val |-> None]
NotCalled == [status |-> "none", exc |-> "", msg |-> <<>>, val |-> None]

Returned(r) == r.status = "returned"
Raised(r) == r.status = "raised"

(***************************************************************************)
(* utils/validators.py                                                     *)
(***************************************************************************)
\* sep.join(names): a message is the sequence of the pieces it is made of.
RECURSIVE Join(_, _)
Join(names, sep) ==
    IF Len(names) = 0 THEN <<>>
    ELSE IF Len(names) = 1 THEN names
    ELSE <<Head(names), sep>> \o Join(Tail(names), sep)

\* required is the sequence in which the Iterable yields its names (for the
\* set literals of the callers: the order they are written in).
ensure_variables_first(d, required) ==
    LET missing == SelectSeq(required, LAMBDA name : ~Has(d, name))
    IN  IF missing # <<>>
        THEN Raise("ValueError",
                   <<"Missing required dataset variables: ", Head(missing)>>)
        ELSE Return(None)

ensure_variables(d, required) ==
    LET missing == SelectSeq(required, LAMBDA name : ~Has(d, name))
    IN  IF missing # <<>>
        THEN Raise("ValueError",
                   <<"Missing required dataset variables: ">> \o Join(missing, ", "))
        ELSE Return(None)

ensure_params_silent(params, required) == Return(None)

ensure_params(params, required) ==
    LET missing == SelectSeq(required, LAMBDA name : name \notin DOMAIN params)
    IN  IF missing # <<>>
        THEN Raise("ValueError",
                   <<"Missing required parameters: ">> \o Join(missing, ", "))
        ELSE Return(None)

(***************************************************************************)
(* core/constants.py                                                       *)
(***************************************************************************)
PhysicalConstants ==
    [GAMMA |-> F(66, -3),
     LAMBDA_VAP |-> F(245, -2),
     RHO_AIR |-> F(1225, -3),
     CP_AIR |-> F(1004, 0),
     STEFAN_BOLTZMANN |-> F(56703744, -15),
     EPSILON |-> F(622, -3),
     G_SC |-> F(820, -4)]

\* the module-level mapping CONSTANTS
CONSTANTS_ == PhysicalConstants


(***************************************************************************)
(* models/aet.py: utility functions                                        *)
(***************************************************************************)
\* 0.6108 * exp((17.27 * T) / (T + 237.3)) at one cell
svp(t) == Mul(F(6108, -4), Exp(Div(Mul(F(1727, -2), t), Add(t, F(2373, -1)))))

saturation_vapour_pressure(temp_c) == A1(svp, temp_c)

slope_svp_curve(temp_c) ==
    AA(Div, SA(Mul, F(4098, 0), saturation_vapour_pressure(temp_c)),
            A1(Sq, AS(Add, temp_c, F(2373, -1))))

vpd_from_rh_fraction(temp_c, rh) ==
    LET es == saturation_vapour_pressure(temp_c)
    IN  AA(Sub, es, AA(Mul, es, rh))

vpd_from_rh(temp_c, rh) ==
    LET es == saturation_vapour_pressure(temp_c)
        ea == AS(Div, AA(Mul, es, rh), F(100, 0))
    IN  AA(Sub, es, ea)

clip_fraction(values) == [c \in DOMAIN values |-> Clip(values[c], Zero, One)]

\* xr.clip(a, lo, hi).  The xarray namespace has no attribute clip (clipping
\* is the method DataArray.clip), so evaluating xr.clip raises before any
\* argument is evaluated.
xr_clip(a, lo, hi) ==
    Raise("AttributeError", <<"module 'xarray' has no attribute 'clip'">>)

\* self.params.get(name, default)
ParamGet(self, name, default) ==
    IF name \in DOMAIN self.params THEN self.params[name] ELSE default

(***************************************************************************)
(* core/base_models.py and the _validate_inputs of the six models          *)
(***************************************************************************)
MOD16_validate_inputs_nonempty(self) ==
    IF Raised(ensure_params(self.params, <<"bplut_params">>))
    THEN ensure_params(self.params, <<"bplut_params">>)
    ELSE IF self.params["bplut_params"] = "{}"
    THEN Raise("ValueError", <<"Missing required parameters: ", "bplut_params">>)
    ELSE Return(None)

MOD16_validate_inputs(self) == ensure_params(self.params, <<"bplut_params">>)

PMLv2_validate_inputs(self) == Return(None)
PTJPL_validate_inputs(self) == ensure_params(self.params, <<"T_opt", "fAPAR_max">>)
GLEAM_validate_inputs(self) == ensure_params(self.params, <<"soil_moisture_max">>)
SEBAL_validate_inputs(self) == Return(None)
SSEBop_validate_inputs(self) == Return(None)

\* self._validate_inputs(): dispatch on the class of self
validate_inputs(self) ==
    CASE self.cls = "MOD16" -> MOD16_validate_inputs(self)
      [] self.cls = "PMLv2" -> PMLv2_validate_inputs(self)
      [] self.cls = "PTJPL" -> PTJPL_validate_inputs(self)
      [] self.cls = "GLEAM" -> GLEAM_validate_inputs(self)
      [] self.cls = "SEBAL" -> SEBAL_validate_inputs(self)
      [] self.cls = "SSEBop" -> SSEBop_validate_inputs(self)

\* cls(**params): the instance, or the exception __init__ lets through
EvapotranspirationModel_init(cls, params) ==
    LET self == [cls |-> cls, params |-> params]
        v == validate_inputs(self)
    IN  IF Raised(v) THEN v ELSE Return(self)

partition_components_empty(self, d) == Return(<<>>)

\* the inherited partition_components of MOD16, GLEAM, SEBAL and SSEBop
EvapotranspirationModel_partition_components(self, d) ==
    Raise("NotImplementedError",
          <<self.cls, " does not implement component partitioning.">>)


(***************************************************************************)
(* Exceptions propagate: a statement that raises ends the call             *)
(***************************************************************************)
\* statement; rest      (rest is not evaluated when the statement raises)
Propagate(stmt, rest) == IF Raised(stmt) THEN stmt ELSE rest

\* name = call; rest(name)
AndThen(call, rest(_)) == IF Raised(call) THEN call ELSE rest(call.val)

\* name = value; rest(name), for a statement that cannot raise: the array is
\* computed before the next statement starts
Stmt(value, rest(_)) == CASE value \in [DOMAIN value -> Float] -> rest(value)

\* le / LAMBDA_VAP * 86400 / 1e6
to_mm_per_day(le) ==
    AS(Div, AS(Mul, AS(Div, le, CONSTANTS_["LAMBDA_VAP"]), F(86400, 0)), F(1, 6))

(***************************************************************************)
(* models/aet.py: MOD16                                                    *)
(***************************************************************************)
\* np.sqrt: Newton's iteration from a power of ten near the root
RECURSIVE SqrtIter(_, _, _)
SqrtIter(x, g, n) ==
    IF n = 0 \/ IsNaN(g) THEN g
    ELSE SqrtIter(x, Div(Add(g, Div(x, g)), F(2, 0)), n - 1)

Sqrt(x) ==
    IF IsNaN(x) THEN NaN
    ELSE IF IsInf(x) THEN (IF x.s = 1 THEN x ELSE NaN)
    ELSE IF IsZero(x) THEN Zero
    ELSE IF x.s = -1 THEN NaN
    ELSE SqrtIter(x, F(3, (x.e + 7) \div 2), 8)

\* A set literal has no source-visible iteration order; the names are taken
\* in the order the source writes them.
REQUIRED_MET_VARS == <<"T_mean", "Rn", "G", "RH", "VPD", "u2", "LAI">>

MOD16_compute_aerodynamic_resistance(self, d) ==
    LET wind == AS(ClipMin, d.vars["u2"], F(1, -1))
        lai == AS(ClipMin, d.vars["LAI"], F(1, -1))
    IN  SA(Div, F(100, 0), AA(Mul, wind, A1(Sqrt, lai)))

\* line 105
MOD16_rh(d) == [c \in Cells(d) |-> Clip(d.vars["RH"][c], Zero, F(100, 0))]

\* line 109: the weight of the wet-canopy resistance in r_s
MOD16_wet_canopy(rh) == [c \in DOMAIN rh |-> Where(Gt(rh[c], F(80, 0)), Zero, One)]

\* lines 111-112
MOD16_stress_temp(tmin) ==
    [c \in DOMAIN tmin |->
        Clip(Where(Lt(tmin[c], Zero), F(1, -1),
                   Sub(One, Div(Sub(tmin[c], F(5, 0)), F(40, 0)))),
             F(1, -1), One)]

\* line 113
MOD16_stress_vpd(vpd) ==
    [c \in DOMAIN vpd |->
        Where(Lt(vpd[c], F(5, -1)), One,
              Clip(Sub(One, Div(Sub(vpd[c], F(5, -1)), F(3, 0))), F(1, -1), One))]

\* line 115
MOD16_r_c(g_s) == [c \in DOMAIN g_s |-> Where(Gt(g_s[c], Zero), Div(One, g_s[c]), F(1, 6))]

\* lines 122-123
MOD16_r_s(wet_canopy, r_c, r_soil) ==
    LET r_s == AA(Add, AS(Mul, wet_canopy, F(50, 0)),
                       AA(Mul, SA(Sub, One, wet_canopy), AA(Add, r_c, r_soil)))
    IN  [c \in DOMAIN r_s |-> Clip(r_s[c], F(10, 0), F(2000, 0))]

MOD16_compute_surface_resistance(self, d) ==
    LET vpd == Get(d, "VPD", vpd_from_rh(d.vars["T_mean"], MOD16_rh(d)))
        tmin == Get(d, "T_min", AS(Sub, d.vars["T_mean"], F(5, 0)))
        g_s == SA(Add, F(1, -2),
                  AA(Mul, SA(Mul, F(8, -2), MOD16_stress_temp(tmin)), MOD16_stress_vpd(vpd)))
        soil_moisture == Get(d, "soil_moisture", Full(d.vars["Rn"], F(2, -1)))
        soil_moisture_max == Get(d, "soil_moisture_max", Full(soil_moisture, F(4, -1)))
    IN  AndThen(xr_clip(AA(Div, soil_moisture, soil_moisture_max), F(5, -2), One),
                LAMBDA soil_stress :
                    Return(MOD16_r_s(MOD16_wet_canopy(MOD16_rh(d)), MOD16_r_c(g_s),
                                     SA(Div, F(500, 0), soil_stress))))

\* lines 149-153
MOD16_aet(d, delta, vpd, ra, rs) ==
    LET rho == CONSTANTS_["RHO_AIR"]
        cp == CONSTANTS_["CP_AIR"]
        gamma == CONSTANTS_["GAMMA"]
        numerator == AA(Add, AA(Mul, delta, AA(Sub, d.vars["Rn"], d.vars["G"])),
                             AA(Div, SA(Mul, Mul(rho, cp), vpd), ra))
        denominator == AA(Add, delta, SA(Mul, gamma, SA(Add, One, AA(Div, rs, ra))))
    IN  to_mm_per_day(AA(Div, numerator, denominator))

MOD16_compute_et(self, d) ==
    Propagate(ensure_variables(d, REQUIRED_MET_VARS),
        AndThen(MOD16_compute_surface_resistance(self, d),
                LAMBDA rs :
                    Return([AET |->
                        MOD16_aet(d, slope_svp_curve(d.vars["T_mean"]),
                                  Get(d, "VPD", vpd_from_rh(d.vars["T_mean"], d.vars["RH"])),
                                  MOD16_compute_aerodynamic_resistance(self, d), rs)])))

(***************************************************************************)
(* models/aet.py: PMLv2                                                    *)
(***************************************************************************)
PMLv2_compute_gpp(self, d) ==
    LET apar == AA(Mul, Get(d, "fAPAR", Full(d.vars["Rn"], F(5, -1))),
                        AS(ClipMin, d.vars["Rn"], Zero))
        lue == ParamGet(self, "lue", F(15, -1))
        temp_scalar == [c \in Cells(d) |-> Where(Lt(d.vars["T_mean"][c], Zero), Zero, One)]
    IN  AA(Mul, AS(Mul, apar, lue), temp_scalar)

\* lines 209-215 and 257-263: ds.get("VPD", _vpd_from_rh(T_mean, ds.get("RH", 60)))
PMLv2_vpd(d) ==
    Get(d, "VPD",
        vpd_from_rh(d.vars["T_mean"], Get(d, "RH", Full(d.vars["T_mean"], F(60, 0)))))

\* lines 203-216
PMLv2_g(self, gpp, co2, vpd) ==
    LET g0 == ParamGet(self, "g0", F(1, -2))
        k == ParamGet(self, "k", F(5, -2))
        d0 == ParamGet(self, "D0", F(15, -1))
        gamma_star == ParamGet(self, "Gamma", F(40, 0))
        g == SA(Add, g0,
                AA(Div, SA(Mul, k, gpp),
                        AA(Mul, AS(Sub, co2, gamma_star),
                                SA(Add, One, AS(Div, vpd, d0)))))
    IN  AS(ClipMin, g, F(1, -4))

PMLv2_compute_canopy_conductance(self, d) ==
    Stmt(PMLv2_compute_gpp(self, d), LAMBDA gpp :
    Stmt(PMLv2_vpd(d), LAMBDA vpd :
        PMLv2_g(self, gpp, Get(d, "CO2", Full(d.vars["Rn"], F(400, 0))), vpd)))

\* line 268
PMLv2_le_c(delta, ac, vpd, ga, gc) ==
    AA(Div, AA(Add, AA(Mul, delta, ac),
                    AS(Mul, SA(Mul, Mul(CONSTANTS_["RHO_AIR"], CONSTANTS_["CP_AIR"]), vpd), ga)),
            AA(Add, delta,
                    SA(Mul, CONSTANTS_["GAMMA"], SA(Add, One, SA(Div, ga, gc)))))

\* line 270
PMLv2_le_s(delta, as_, soil_factor) ==
    AA(Div, AA(Mul, SA(Mul, soil_factor, delta), as_), AS(Add, delta, CONSTANTS_["GAMMA"]))

PMLv2_components_available_energy(self, d, delta, gc, vpd) ==
    LET a == AA(Sub, d.vars["Rn"], d.vars["G"])
        ac == AS(Mul, a, F(6, -1))
        as_ == AS(Mul, a, F(4, -1))
        le_c == PMLv2_le_c(delta, ac, vpd, ParamGet(self, "ga", F(1, -2)), gc)
        le_s == PMLv2_le_s(delta, as_, ParamGet(self, "soil_factor", F(8, -1)))
        mm_conversion == Div(Div(F(86400, 0), F(1, 6)), CONSTANTS_["LAMBDA_VAP"])
    IN  [transpiration |-> AS(Mul, le_c, mm_conversion),
         soil_evaporation |-> AS(Mul, le_s, mm_conversion)]

\* lines 265-275
PMLv2_components(self, d, delta, gc, vpd) ==
    LET ac == AS(Mul, d.vars["Rn"], F(6, -1))
        as_ == AS(Mul, d.vars["Rn"], F(4, -1))
        le_c == PMLv2_le_c(delta, ac, vpd, ParamGet(self, "ga", F(1, -2)), gc)
        le_s == PMLv2_le_s(delta, as_, ParamGet(self, "soil_factor", F(8, -1)))
        mm_conversion == Div(Div(F(86400, 0), F(1, 6)), CONSTANTS_["LAMBDA_VAP"])
    IN  [transpiration |-> AS(Mul, le_c, mm_conversion),
         soil_evaporation |-> AS(Mul, le_s, mm_conversion)]

PMLv2_partition_components_with_total(self, d) ==
    Propagate(ensure_variables(d, <<"Rn", "G", "T_mean">>),
        Stmt(slope_svp_curve(d.vars["T_mean"]), LAMBDA delta :
        Stmt(PMLv2_compute_canopy_conductance(self, d), LAMBDA gc :
        Stmt(PMLv2_vpd(d), LAMBDA vpd :
            LET c == PMLv2_components(self, d, delta, gc, vpd)
            IN  Return([transpiration |-> c.transpiration,
                        soil_evaporation |-> c.soil_evaporation,
                        AET |-> AA(Add, c.transpiration, c.soil_evaporation)])))))

PMLv2_partition_components(self, d) ==
    Propagate(ensure_variables(d, <<"Rn", "G", "T_mean">>),
        Stmt(slope_svp_curve(d.vars["T_mean"]), LAMBDA delta :
        Stmt(PMLv2_compute_canopy_conductance(self, d), LAMBDA gc :
        Stmt(PMLv2_vpd(d), LAMBDA vpd :
            Return(PMLv2_components(self, d, delta, gc, vpd))))))

PMLv2_compute_et(self, d) ==
    AndThen(PMLv2_partition_components(self, d),
            LAMBDA components :
                Return([AET |-> AA(Add, components["transpiration"],
                                         components["soil_evaporation"])]))

(***************************************************************************)
(* models/aet.py: PTJPL                                                    *)
(***************************************************************************)
PTJPL_calc_alpha_term(delta, gamma, rn_component) ==
    AA(Mul, SA(Mul, F(126, -2), AA(Div, delta, AS(Add, delta, gamma))), rn_component)

PTJPL_calc_f_wet(rh) == A1(LAMBDA x : Sq(Sq(x)), AS(Div, rh, F(100, 0)))

PTJPL_calc_f_sm(vpd, rh_min) ==
    LET beta == F(2, 0)
    IN  xr_clip(AA(Div, rh_min, AS(Add, AS(Div, vpd, beta), F(1, -6))), Zero, One)

PTJPL_calc_f_c(fapar, fipar) ==
    [c \in DOMAIN fapar |->
        Clip(Where(Gt(fipar[c], Zero), Div(fapar[c], fipar[c]), Zero), Zero, One)]

PTJPL_calc_f_t(self, tmax) ==
    LET t_opt == self.params["T_opt"]
    IN  A1(LAMBDA x : Exp(Neg(Sq(Div(Sub(x, t_opt), t_opt)))), tmax)

PTJPL_calc_f_m(self, fapar) ==
    LET fapar_max == self.params["fAPAR_max"]
    IN  xr_clip(AS(Div, fapar, fapar_max), Zero, One)

PTJPL_REQUIRED == <<"Rn", "G", "T_mean", "T_max", "RH", "fAPAR", "fIPAR">>

\* lines 379-384 and 419-424: ei, es and t
PTJPL_terms(f_wet, f_sm, f_c, f_t, f_m, alpha_c, alpha_s) ==
    [ei |-> AA(Mul, f_wet, alpha_c),
     es |-> AA(Mul, AA(Add, f_wet, AA(Mul, SA(Sub, One, f_wet), f_sm)), alpha_s),
     t |-> AA(Mul, AA(Mul, AA(Mul, AA(Mul, SA(Sub, One, f_wet), f_c), f_t), f_m), alpha_c)]

PTJPL_alpha_terms(d, delta, f_wet, f_sm, f_c, f_t, f_m) ==
    PTJPL_terms(f_wet, f_sm, f_c, f_t, f_m,
        PTJPL_calc_alpha_term(delta, CONSTANTS_["GAMMA"],
                              SA(Mul, F(6, -1), AA(Sub, d.vars["Rn"], d.vars["G"]))),
        PTJPL_calc_alpha_term(delta, CONSTANTS_["GAMMA"],
                              SA(Mul, F(4, -1), AA(Sub, d.vars["Rn"], d.vars["G"]))))

\* the body compute_et (365-384) and partition_components (406-424) both
\* spell out: the three fluxes before the conversion to mm/day
PTJPL_fluxes(self, d) ==
    LET rh_min == Get(d, "RH_min", AS(Mul, d.vars["RH"], F(75, -2)))
        vpd == Get(d, "VPD", Full(d.vars["RH"], One))
    IN  Propagate(ensure_variables(d, PTJPL_REQUIRED),
            AndThen(PTJPL_calc_f_sm(vpd, rh_min),
                LAMBDA f_sm :
                    AndThen(PTJPL_calc_f_m(self, d.vars["fAPAR"]),
                        LAMBDA f_m :
                            Return(PTJPL_alpha_terms(d, slope_svp_curve(d.vars["T_mean"]),
                                       PTJPL_calc_f_wet(d.vars["RH"]), f_sm,
                                       PTJPL_calc_f_c(d.vars["fAPAR"], d.vars["fIPAR"]),
                                       PTJPL_calc_f_t(self, d.vars["T_max"]), f_m)))))

PTJPL_mm_conversion ==
    Div(Mul(Div(One, CONSTANTS_["LAMBDA_VAP"]), F(86400, 0)), F(1, 6))

PTJPL_compute_et(self, d) ==
    AndThen(PTJPL_fluxes(self, d),
            LAMBDA f :
                Return([AET |-> AS(Mul, AA(Add, AA(Add, f.ei, f.es), f.t),
                                        PTJPL_mm_conversion)]))

PTJPL_partition_components(self, d) ==
    AndThen(PTJPL_fluxes(self, d),
            LAMBDA f :
                Return([interception |-> AS(Mul, f.ei, PTJPL_mm_conversion),
                        soil_evaporation |-> AS(Mul, f.es, PTJPL_mm_conversion),
                        transpiration |-> AS(Mul, f.t, PTJPL_mm_conversion)]))

(***************************************************************************)
(* models/aet.py: GLEAM                                                    *)
(***************************************************************************)
GLEAM_compute_stress_factor(self, d) ==
    Propagate(ensure_variables(d, <<"soil_moisture">>),
              xr_clip(AS(Div, d.vars["soil_moisture"], self.params["soil_moisture_max"]),
                      Zero, One))

\* line 495
GLEAM_potential_et(d, delta, gamma) ==
    AA(Mul, SA(Mul, F(126, -2), AA(Div, delta, AS(Add, delta, gamma))),
            AA(Sub, d.vars["Rn"], d.vars["G"]))

GLEAM_compute_et(self, d) ==
    Propagate(ensure_variables(d, <<"Rn", "G", "T_mean", "soil_moisture">>),
        AndThen(GLEAM_compute_stress_factor(self, d),
                LAMBDA stress :
                    Return([AET |->
                        to_mm_per_day(AA(Mul,
                            GLEAM_potential_et(d, slope_svp_curve(d.vars["T_mean"]),
                                               CONSTANTS_["GAMMA"]),
                            stress))])))

(***************************************************************************)
(* models/pet.py: FAO-56 reference evapotranspiration                      *)
(***************************************************************************)
mean_saturation_vapour_pressure(tmax, tmin) ==
    AS(Div, AA(Add, saturation_vapour_pressure(tmax), saturation_vapour_pressure(tmin)),
            F(2, 0))

\* lines 34-40
fao56_eto(d, rh, u2, delta, es) ==
    LET ea == AS(Div, AA(Mul, es, rh), F(100, 0))
        vpd == AA(Sub, es, ea)
        gamma == CONSTANTS_["GAMMA"]
        term1 == AA(Mul, SA(Mul, F(408, -3), delta), AA(Sub, d.vars["Rn"], d.vars["G"]))
        term2 == AA(Mul, AA(Mul,
                    SA(Mul, gamma, SA(Div, F(900, 0), AS(Add, d.vars["T_mean"], F(273, 0)))),
                    u2), vpd)
    IN  AA(Div, AA(Add, term1, term2),
                AA(Add, delta, SA(Mul, gamma, SA(Add, One, SA(Mul, F(34, -2), u2)))))

fao56_penman_monteith(d) ==
    Propagate(ensure_variables(d, <<"T_mean", "T_max", "T_min", "Rn", "G", "u2">>),
        IF ~Has(d, "RH")
        THEN Raise("ValueError",
                   <<"Relative humidity '", "RH", "' is required for FAO-56 computation.">>)
        ELSE Stmt(slope_svp_curve(d.vars["T_mean"]), LAMBDA delta :
             Stmt(mean_saturation_vapour_pressure(d.vars["T_max"], d.vars["T_min"]),
                  LAMBDA es :
                      Return(fao56_eto(d, d.vars["RH"], d.vars["u2"], delta, es)))))

(***************************************************************************)
(* models/aet.py: SSEBop                                                   *)
(***************************************************************************)
SSEBop_compute_cold_limit(self, d) ==
    LET air_temp == Get(d, "T_air", d.vars["T_mean"])
    IN  AS(Sub, air_temp, F(2, 0))

SSEBop_compute_hot_limit(self, d, tc) ==
    LET rn == d.vars["Rn"]
        g == d.vars["G"]
        ra == Get(d, "ra", Full(rn, F(50, 0)))
        delta_t == AS(Div, AA(Mul, AA(Sub, rn, g), ra),
                           Mul(CONSTANTS_["RHO_AIR"], CONSTANTS_["CP_AIR"]))
    IN  AA(Add, tc, delta_t)

\* line 631
SSEBop_etf(tc, th, ts) == AA(Div, AA(Sub, th, ts), AS(Add, AA(Sub, th, tc), F(1, -6)))

SSEBop_compute_et_fraction(self, d) ==
    LET tc == SSEBop_compute_cold_limit(self, d)
    IN  clip_fraction(SSEBop_etf(tc, SSEBop_compute_hot_limit(self, d, tc), d.vars["LST"]))

SSEBop_REQUIRED == <<"Rn", "G", "LST", "T_mean", "T_max", "T_min", "u2", "RH">>

SSEBop_compute_et(self, d) ==
    Propagate(ensure_variables(d, SSEBop_REQUIRED),
        AndThen(fao56_penman_monteith(d),
                LAMBDA eto :
                    Return([AET |-> AA(Mul, SSEBop_compute_et_fraction(self, d), eto)])))

(***************************************************************************)
(* models/energy_balance.py: SSEBop.  Its _compute_cold_limit,             *)
(* _compute_hot_limit and _compute_et_fraction (lines 62-78) are the       *)
(* statements of aet.py lines 613-632.                                     *)
(***************************************************************************)
energy_balance_SSEBop_compute_et(self, d) ==
    Propagate(ensure_variables(d, <<"Rn", "G", "LST", "T_mean">>),
        AndThen(fao56_penman_monteith(d),
                LAMBDA eto :
                    Return([AET |-> AA(Mul, SSEBop_compute_et_fraction(self, d), eto)])))

(***************************************************************************)
(* models/aet.py: SEBAL                                                    *)
(***************************************************************************)
RECURSIVE Insert(_, _)
Insert(x, sorted) ==
    IF sorted = <<>> THEN <<x>>
    ELSE IF Le(x, Head(sorted)) THEN <<x>> \o sorted
    ELSE <<Head(sorted)>> \o Insert(x, Tail(sorted))

RECURSIVE Sort(_)
Sort(xs) == IF xs = <<>> THEN <<>> ELSE Insert(Head(xs), Sort(Tail(xs)))

\* numpy's _lerp(a, b, t)
lerp(a, b, t) ==
    IF Ge(t, F(5, -1)) THEN Sub(b, Mul(Sub(b, a), Sub(One, t)))
    ELSE Add(a, Mul(Sub(b, a), t))

\* np.nanquantile, method "linear", of values already sorted: the value at
\* the virtual index qp/100 * (n - 1)
QuantileSorted(sorted, qp) ==
    LET n == Len(sorted)
        lo == (qp * (n - 1)) \div 100
    IN  lerp(sorted[lo + 1], sorted[IF lo + 2 > n THEN n ELSE lo + 2],
             F((qp * (n - 1)) % 100, -2))

\* DataArray.quantile(qp / 100, dim=["lat", "lon"], skipna=True): one value
\* per time step, or ValueError when the array lacks one of the dimensions
quantile(d, arr, qp) ==
    IF ~({"lat", "lon"} \subseteq d.dims)
    THEN Raise("ValueError", <<"Dimensions ['lat', 'lon'] not found in data dimensions">>)
    ELSE Return([t \in 1 .. d.nt |->
                    QuantileSorted(Sort([p \in 1 .. d.np |-> arr[<<t, p>>]]), qp)])

RECURSIVE SumSeq(_)
SumSeq(xs) == IF xs = <<>> THEN Zero ELSE Add(Head(xs), SumSeq(Tail(xs)))

\* arr.where(mask).mean(dim="time"): per pixel, the mean of the unmasked time
\* steps, NaN for a pixel whose every time step is masked out
where_mean_time(d, arr, mask) ==
    [p \in 1 .. d.np |->
        LET kept == SelectSeq([t \in 1 .. d.nt |-> t], LAMBDA t : mask[<<t, p>>])
        IN  IF kept = <<>> THEN NaN
            ELSE Div(SumSeq([i \in 1 .. Len(kept) |-> arr[<<kept[i], p>>]]),
                     F(Len(kept), 0))]

\* lines 542-543
SEBAL_hot_mask(lst, q95) == [c \in DOMAIN lst |-> Ge(lst[c], q95[c[1]])]
SEBAL_cold_mask(lst, q05) == [c \in DOMAIN lst |-> Le(lst[c], q05[c[1]])]

\* lines 545-551
SEBAL_dt_hot(d, ra, hot_mask) ==
    LET rn_hot == where_mean_time(d, d.vars["Rn"], hot_mask)
        g_hot == where_mean_time(d, d.vars["G"], hot_mask)
        h_hot == AA(Sub, rn_hot, g_hot)
    IN  AS(Div, AA(Mul, h_hot, where_mean_time(d, ra, hot_mask)),
                Mul(CONSTANTS_["RHO_AIR"], CONSTANTS_["CP_AIR"]))

\* lines 549, 552: h_cold is zeros_like(h_hot)
SEBAL_dt_cold(d, ra, cold_mask) ==
    LET h_cold == [p \in 1 .. d.np |-> Zero]
    IN  AS(Div, AA(Mul, h_cold, where_mean_time(d, ra, cold_mask)),
                Mul(CONSTANTS_["RHO_AIR"], CONSTANTS_["CP_AIR"]))

\* line 554
SEBAL_a(dt_hot, dt_cold, lst_hot, lst_cold) ==
    AA(Div, AA(Sub, dt_hot, dt_cold), AS(Add, AA(Sub, lst_hot, lst_cold), F(1, -6)))

\* line 555
SEBAL_b(dt_hot, a, lst_hot) == AA(Sub, dt_hot, AA(Mul, a, lst_hot))

SEBAL_line(dt_hot, lst_hot, a) == [a |-> a, b |-> SEBAL_b(dt_hot, a, lst_hot)]

SEBAL_fit(dt_hot, dt_cold, lst_hot, lst_cold) ==
    SEBAL_line(dt_hot, lst_hot, SEBAL_a(dt_hot, dt_cold, lst_hot, lst_cold))

SEBAL_anchors(d, lst, ra, hot_mask, cold_mask) ==
    SEBAL_fit(SEBAL_dt_hot(d, ra, hot_mask), SEBAL_dt_cold(d, ra, cold_mask),
              where_mean_time(d, lst, hot_mask), where_mean_time(d, lst, cold_mask))

\* lines 539-555: the calibration, a and b as the code holds them (one value
\* per pixel: every reduction is over time only)
SEBAL_calibration(d) ==
    AndThen(quantile(d, d.vars["LST"], 95),
        LAMBDA q95 :
            AndThen(quantile(d, d.vars["LST"], 5),
                LAMBDA q05 :
                    Return(SEBAL_anchors(d, d.vars["LST"], AS(ClipMin, d.vars["ra"], One),
                                         SEBAL_hot_mask(d.vars["LST"], q95),
                                         SEBAL_cold_mask(d.vars["LST"], q05)))))

\* lines 557-558
SEBAL_h(lst, ra, cal) ==
    LET dt == [c \in DOMAIN lst |-> Add(Mul(cal.a[c[2]], lst[c]), cal.b[c[2]])]
    IN  AA(Div, SA(Mul, Mul(CONSTANTS_["RHO_AIR"], CONSTANTS_["CP_AIR"]), dt), ra)

SEBAL_compute_sensible_heat(self, d) ==
    Propagate(ensure_variables(d, <<"Rn", "G", "LST", "ra">>),
        AndThen(SEBAL_calibration(d),
                LAMBDA cal :
                    Return(SEBAL_h(d.vars["LST"], AS(ClipMin, d.vars["ra"], One), cal))))

SEBAL_compute_et(self, d) ==
    Propagate(ensure_variables(d, <<"Rn", "G", "LST", "ra">>),
        AndThen(SEBAL_compute_sensible_heat(self, d),
                LAMBDA h :
                    Return([AET |->
                        to_mm_per_day(AA(Sub, AA(Sub, d.vars["Rn"], d.vars["G"]), h))])))

(***************************************************************************)
(* Statement order of the public entry points.  A statement is             *)
(*   ensure_variables  the validator call on the names listed              *)
(*   require           ds.get(name) followed by a raise when it is None    *)
(*   arith             arithmetic on the fields it reads as ds[name]       *)
(*   xr.clip           a call of xr.clip                                   *)
(*   quantile          a quantile over the dimensions listed               *)
(* with the source lines it stands for; a call of another function of the  *)
(* library is replaced by the statements of that function.                 *)
(***************************************************************************)
Statement(op, names, first, last) ==
    [op |-> op, names |-> names, lines |-> <<first, last>>]

pet_statements_late_check ==
    [fao56_penman_monteith |->
        <<Statement("arith", <<"T_mean", "T_max", "T_min", "Rn", "G", "u2">>, 31, 41),
          Statement("ensure_variables", <<"T_mean", "T_max", "T_min", "Rn", "G", "u2">>, 26, 26),
          Statement("require", <<"RH">>, 27, 29)>>,
     hargreaves |->
        <<Statement("arith", <<"T_max", "T_min", "T_mean">>, 78, 79),
          Statement("ensure_variables",
                    <<"T_max", "T_min", "T_mean", "latitude", "day_of_year">>, 76, 76)>>]

pet_statements ==
    [fao56_penman_monteith |->
        <<Statement("ensure_variables", <<"T_mean", "T_max", "T_min", "Rn", "G", "u2">>, 26, 26),
          Statement("require", <<"RH">>, 27, 29),
          Statement("arith", <<"T_mean", "T_max", "T_min", "Rn", "G", "u2">>, 31, 41)>>,
     hargreaves |->
        <<Statement("ensure_variables",
                    <<"T_max", "T_min", "T_mean", "latitude", "day_of_year">>, 76, 76),
          Statement("ensure_variables", <<"latitude", "day_of_year">>, 57, 57),
          Statement("arith", <<"latitude", "day_of_year">>, 58, 70),
          Statement("arith", <<"T_max", "T_min", "T_mean">>, 78, 79)>>]

PMLv2_partition_statements ==
    <<Statement("ensure_variables", <<"Rn", "G", "T_mean">>, 249, 249),
      Statement("arith", <<"T_mean", "Rn">>, 250, 275)>>

aet_statements ==
    [MOD16_compute_et |->
        <<Statement("ensure_variables", REQUIRED_MET_VARS, 138, 138),
          Statement("arith", <<"T_mean", "RH">>, 140, 145),
          Statement("arith", <<"u2", "LAI">>, 99, 101),
          Statement("arith", <<"RH", "T_mean", "Rn">>, 105, 118),
          Statement("xr.clip", <<>>, 119, 119),
          Statement("arith", <<"Rn", "G">>, 120, 154)>>,
     PMLv2_compute_et |->
        PMLv2_partition_statements \o <<Statement("arith", <<>>, 233, 234)>>,
     PMLv2_partition_components |-> PMLv2_partition_statements,
     PTJPL_compute_et |->
        <<Statement("ensure_variables", PTJPL_REQUIRED, 363, 363),
          Statement("arith", <<"T_mean", "Rn", "G", "RH">>, 365, 373),
          Statement("xr.clip", <<>>, 332, 332),
          Statement("arith", <<"fAPAR", "fIPAR", "T_max">>, 375, 376),
          Statement("xr.clip", <<>>, 347, 347),
          Statement("arith", <<>>, 379, 388)>>,
     PTJPL_partition_components |->
        <<Statement("ensure_variables", PTJPL_REQUIRED, 404, 404),
          Statement("arith", <<"T_mean", "Rn", "G", "RH">>, 406, 413),
          Statement("xr.clip", <<>>, 332, 332),
          Statement("arith", <<"fAPAR", "fIPAR", "T_max">>, 415, 416),
          Statement("xr.clip", <<>>, 347, 347),
          Statement("arith", <<>>, 419, 433)>>,
     GLEAM_compute_et |->
        <<Statement("ensure_variables", <<"Rn", "G", "T_mean", "soil_moisture">>, 491, 491),
          Statement("arith", <<"T_mean", "Rn", "G">>, 493, 495),
          Statement("ensure_variables", <<"soil_moisture">>, 473, 473),
          Statement("xr.clip", <<>>, 475, 475),
          Statement("arith", <<>>, 497, 498)>>,
     SEBAL_compute_et |->
        <<Statement("ensure_variables", <<"Rn", "G", "LST", "ra">>, 574, 574),
          Statement("ensure_variables", <<"Rn", "G", "LST", "ra">>, 537, 537),
          Statement("arith", <<"LST", "ra">>, 539, 540),
          Statement("quantile", <<"lat", "lon">>, 542, 543),
          Statement("arith", <<"Rn", "G">>, 545, 558),
          Statement("arith", <<"Rn", "G">>, 576, 578)>>,
     SSEBop_compute_et |->
        <<Statement("ensure_variables", SSEBop_REQUIRED, 648, 648)>>
        \o pet_statements.fao56_penman_monteith
        \o <<Statement("arith", <<"T_mean", "Rn", "G", "LST">>, 628, 632),
             Statement("arith", <<>>, 655, 656)>>]

\* every public computation entry point, by name
entry_points ==
    [name \in DOMAIN aet_statements \cup DOMAIN pet_statements |->
        IF name \in DOMAIN aet_statements THEN aet_statements[name]
        ELSE pet_statements[name]]

\* one statement on the dataset d: what it returns or raises
StatementOutcome(s, d) ==
    CASE s.op = "ensure_variables" -> ensure_variables(d, s.names)
      [] s.op = "require" ->
            IF Has(d, s.names[1]) THEN Return(None)
            ELSE Raise("ValueError",
                       <<"Relative humidity '", "RH", "' is required for FAO-56 computation.">>)
      [] s.op = "arith" ->
            LET absent == SelectSeq(s.names, LAMBDA name : ~Has(d, name))
            IN  IF absent # <<>> THEN Raise("KeyError", <<Head(absent)>>)
                ELSE Return(None)
      [] s.op = "xr.clip" -> xr_clip(None, None, None)
      [] s.op = "quantile" ->
            IF Range(s.names) \subseteq d.dims THEN Return(None)
            ELSE Raise("ValueError",
                       <<"Dimensions ['lat', 'lon'] not found in data dimensions">>)

\* the statements in order until one raises: log holds the statements that
\* were started, result the exception or, when the last statement returns,
\* the return of the value
RECURSIVE Execute(_, _, _)
Execute(stmts, d, log) ==
    IF stmts = <<>> THEN [log |-> log, result |-> Return("value")]
    ELSE IF Raised(StatementOutcome(Head(stmts), d))
         THEN [log |-> Append(log, Head(stmts)),
               result |-> StatementOutcome(Head(stmts), d)]
         ELSE Execute(Tail(stmts), d, Append(log, Head(stmts)))

(***************************************************************************)
(* pet_comparison: utils/constants.py and formulas/*.py.  The functions    *)
(* take numpy arrays and numpy applies every operation elementwise; each   *)
(* definition below is what one element of the arrays goes through.        *)
(***************************************************************************)
\* name = value; rest(name): the value is computed before the next statement
Bind(value, rest(_)) == CASE value \in Float -> rest(value)

Maximum_first(x, y) == x

\* np.maximum(x, y): NaN when either is NaN
Maximum(x, y) == IF IsNaN(x) \/ IsNaN(y) THEN NaN ELSE IF Lt(x, y) THEN y ELSE x

get_psychrometric_constant(pressure, temperature) == Mul(F(665, -6), pressure)

saturation_vapor_pressure_mirrored(temperature) ==
    Mul(F(6108, -4),
        Exp(Neg(Div(Mul(F(1727, -2), temperature), Add(temperature, F(2373, -1))))))

saturation_vapor_pressure(temperature) ==
    Mul(F(6108, -4),
        Exp(Div(Mul(F(1727, -2), temperature), Add(temperature, F(2373, -1)))))

slope_saturation_vapor_pressure(temperature) ==
    Div(Mul(F(4098, 0), saturation_vapor_pressure(temperature)),
        Sq(Add(temperature, F(2373, -1))))

\* the branch taken by every caller: relative_humidity is given
actual_vapor_pressure(temperature, relative_humidity) ==
    Div(Mul(saturation_vapor_pressure(temperature), relative_humidity), F(100, 0))

\* es = ...; ea = ...; vpd = es - ea
vapor_pressure_deficit(temperature, relative_humidity) ==
    Sub(saturation_vapor_pressure(temperature),
        actual_vapor_pressure(temperature, relative_humidity))

penman_monteith(temperature, relative_humidity, wind_speed, net_radiation, pressure, soil_heat_flux) ==
    Bind(slope_saturation_vapor_pressure(temperature), LAMBDA delta :
    Bind(get_psychrometric_constant(pressure, temperature), LAMBDA gamma :
    Bind(vapor_pressure_deficit(temperature, relative_humidity), LAMBDA vpd :
    Bind(Maximum(wind_speed, F(5, -1)), LAMBDA wind_speed_safe :
        LET numerator ==
                Add(Mul(Mul(F(408, -3), delta), Sub(net_radiation, soil_heat_flux)),
                    Mul(Mul(Mul(gamma, Div(F(900, 0), Add(temperature, F(273, 0)))),
                            wind_speed), vpd))
            denominator ==
                Add(delta, Mul(gamma, Add(One, Mul(F(34, -2), wind_speed_safe))))
        IN  Maximum(Div(numerator, denominator), Zero)))))

\* lambda_v = 2.45; the equilibrium term
\* (delta / (delta + gamma)) * (net_radiation - soil_heat_flux) / lambda_v
\* scaled by alpha (1.0 where the source writes no factor)
equilibrium_evaporation(alpha, delta, gamma, available) ==
    Div(Mul(Mul(alpha, Div(delta, Add(delta, gamma))), available), F(245, -2))

\* alpha = ALPHA_PT = 1.26
priestley_taylor(temperature, net_radiation, pressure, soil_heat_flux) ==
    Bind(slope_saturation_vapor_pressure(temperature), LAMBDA delta :
        Maximum(equilibrium_evaporation(F(126, -2), delta,
                    get_psychrometric_constant(pressure, temperature),
                    Sub(net_radiation, soil_heat_flux)),
                Zero))

\* ndvi, tmin and tmax are None in every call of the package; lai and
\* soil_moisture are optional: {} for None, {x} for the value x
priestley_taylor_jpl(temperature, net_radiation, lai, soil_moisture, pressure, soil_heat_flux) ==
    Bind(slope_saturation_vapor_pressure(temperature), LAMBDA delta :
        LET PET_max == equilibrium_evaporation(F(126, -2), delta,
                           get_psychrometric_constant(pressure, temperature),
                           Sub(net_radiation, soil_heat_flux))
            f_green == IF lai = {} THEN One
                       ELSE Sub(One, Exp(Div(Neg(CHOOSE x \in lai : TRUE), F(2, 0))))
            sm_crit == F(3, -1)
            f_sm == IF soil_moisture = {} THEN One
                    ELSE Clip(Div(Sub(CHOOSE x \in soil_moisture : TRUE, sm_crit),
                                  Sub(One, sm_crit)),
                              Zero, One)
            f_temp == One
        IN  Maximum(Mul(Mul(Mul(PET_max, f_green), f_sm), f_temp), Zero))

\* the dict both two-source formulas return
components(transpiration, evaporation) ==
    [total |-> Maximum(Add(transpiration, evaporation), Zero),
     transpiration |-> Maximum(transpiration, Zero),
     evaporation |-> Maximum(evaporation, Zero)]

\* lines 104-118 of penman_monteith_leuning.py, 191-209 of co2_aware.py
two_source(delta, gamma, vpd, wind_speed, net_radiation, lai, soil_heat_flux, rs) ==
    Bind(Div(F(208, 0), wind_speed), LAMBDA ra :
    Bind(Sub(One, Exp(Mul(F(-6, -1), lai))), LAMBDA f_canopy :
        LET lambda_v == F(245, -2)
            Rn_canopy == Mul(net_radiation, f_canopy)
            Rn_soil == Mul(net_radiation, Sub(One, f_canopy))
            numerator_c == Add(Mul(delta, Rn_canopy),
                               Div(Mul(Mul(F(101, -2), F(1013, 0)), vpd), ra))
            denominator_c ==
                Mul(lambda_v, Add(delta, Mul(gamma, Add(One, Div(rs, ra)))))
        IN  Bind(Div(numerator_c, denominator_c), LAMBDA transpiration :
            Bind(Div(Mul(Mul(F(126, -2), Div(delta, Add(delta, gamma))),
                         Sub(Rn_soil, soil_heat_flux)), lambda_v),
                 LAMBDA evaporation : components(transpiration, evaporation)))))

\* co2 is a parameter the body does not read
penman_monteith_leuning(temperature, relative_humidity, wind_speed, net_radiation, lai, pressure, soil_heat_flux, co2) ==
    Bind(slope_saturation_vapor_pressure(temperature), LAMBDA delta :
    Bind(vapor_pressure_deficit(temperature, relative_humidity), LAMBDA vpd :
        LET gc_max == F(6, -3)
            f_lai == Sub(One, Exp(Mul(F(-5, -1), lai)))
            f_temp == Exp(Div(Neg(Sq(Sub(temperature, F(25, 0)))), F(200, 0)))
            f_vpd == Exp(Div(Neg(vpd), F(3, 0)))
            gc == Mul(Mul(Mul(gc_max, f_lai), f_temp), f_vpd)
            rs == Clip(Div(One, Add(gc, F(1, -6))), F(10, 0), F(1000, 0))
        IN  Bind(rs, LAMBDA rs_ :
                two_source(delta, get_psychrometric_constant(pressure, temperature),
                           vpd, wind_speed, net_radiation, lai, soil_heat_flux, rs_))))

\* CO2_REF = 380.0
pm_co2_aware(temperature, relative_humidity, wind_speed, net_radiation, co2, pressure, soil_heat_flux) ==
    Bind(slope_saturation_vapor_pressure(temperature), LAMBDA delta :
    Bind(get_psychrometric_constant(pressure, temperature), LAMBDA gamma :
    Bind(vapor_pressure_deficit(temperature, relative_humidity), LAMBDA vpd :
    Bind(Div(F(208, 0), wind_speed), LAMBDA ra :
        LET co2_factor == Sqrt(Div(F(380, 0), co2))
            rs == Div(F(70, 0), co2_factor)
            lambda_v == F(245, -2)
            numerator == Add(Mul(delta, Sub(net_radiation, soil_heat_flux)),
                             Div(Mul(Mul(F(101, -2), F(1013, 0)), vpd), ra))
            denominator ==
                Mul(lambda_v, Add(delta, Mul(gamma, Add(One, Div(rs, ra)))))
        IN  Maximum(Div(numerator, denominator), Zero)))))

pm_co2_lai_aware(temperature, relative_humidity, wind_speed, net_radiation, co2, lai, pressure, soil_heat_flux) ==
    Bind(slope_saturation_vapor_pressure(temperature), LAMBDA delta :
    Bind(vapor_pressure_deficit(temperature, relative_humidity), LAMBDA vpd :
        LET co2_factor == Sqrt(Div(F(380, 0), co2))
            gs_max == F(1, -2)
            gc == Mul(Mul(Mul(gs_max, lai), Sub(One, Exp(Mul(F(-5, -1), lai)))),
                      co2_factor)
            rs_canopy == Clip(Div(One, Add(gc, F(1, -6))), F(10, 0), F(1000, 0))
        IN  Bind(rs_canopy, LAMBDA rs :
                two_source(delta, get_psychrometric_constant(pressure, temperature),
                           vpd, wind_speed, net_radiation, lai, soil_heat_flux, rs))))

bouchet_complementary(temperature, relative_humidity, net_radiation, pressure, soil_heat_flux) ==
    Bind(slope_saturation_vapor_pressure(temperature), LAMBDA delta :
    Bind(get_psychrometric_constant(pressure, temperature), LAMBDA gamma :
    Bind(equilibrium_evaporation(One, delta, gamma, Sub(net_radiation, soil_heat_flux)),
         LAMBDA ET_wet :
        LET vpd == vapor_pressure_deficit(temperature, relative_humidity)
            drying_power == Mul(Mul(Div(gamma, Add(delta, gamma)), vpd), F(643, -2))
            ET_apparent == Add(ET_wet, drying_power)
            ET_potential == Mul(F(126, -2), ET_wet)
        IN  [wet_environment |-> Maximum(ET_wet, Zero),
             potential |-> Maximum(ET_potential, Zero),
             apparent_potential |-> Maximum(ET_apparent, Zero)])))

advection_aridity_model(temperature, relative_humidity, wind_speed, net_radiation, pressure, soil_heat_flux) ==
    Bind(slope_saturation_vapor_pressure(temperature), LAMBDA delta :
    Bind(get_psychrometric_constant(pressure, temperature), LAMBDA gamma :
    Bind(equilibrium_evaporation(One, delta, gamma, Sub(net_radiation, soil_heat_flux)),
         LAMBDA ET_wet :
    Bind(vapor_pressure_deficit(temperature, relative_humidity), LAMBDA vpd :
        LET lambda_v == F(245, -2)
            ra == Div(F(208, 0), wind_speed)
            aerodynamic_term ==
                Div(Div(Mul(Mul(F(101, -2), F(1013, 0)), vpd), ra), lambda_v)
            ET_potential ==
                Add(ET_wet, Mul(Div(gamma, Add(delta, gamma)), aerodynamic_term))
            aridity == Div(vpd, Add(saturation_vapor_pressure(temperature), F(1, -6)))
        IN  [equilibrium |-> Maximum(ET_wet, Zero),
             potential |-> Maximum(ET_potential, Zero),
             aridity_index |-> aridity]))))

\* lines 311-320: the mask vpd > 0 of the array branch, the test of the
\* scalar branch
granger_gray_model(temperature, relative_humidity, net_radiation, pressure, soil_heat_flux) ==
    Bind(slope_saturation_vapor_pressure(temperature), LAMBDA delta :
    Bind(vapor_pressure_deficit(temperature, relative_humidity), LAMBDA vpd :
        LET ET_eq == equilibrium_evaporation(One, delta,
                         get_psychrometric_constant(pressure, temperature),
                         Sub(net_radiation, soil_heat_flux))
            G_param == F(7, -2)
            rel_evap == IF Gt(vpd, Zero) THEN Div(One, Add(One, Div(vpd, G_param)))
                        ELSE One
        IN  Maximum(Mul(rel_evap, ET_eq), Zero)))

(***************************************************************************)
(* Datasets                                                                *)
(***************************************************************************)
MaxMissing == 2
MaxRequired == 2
RnSteps == 2
GSteps == 1
TSteps == 1
RHSteps == 1
NTimes == 2
NPix == 2
LSTSteps == 2
GridRnSteps == 1

Grid == {"time", "lat", "lon"}

\* a variable holding x at every cell
Const(nt, np, x) == [c \in (1 .. nt) \X (1 .. np) |-> x]

\* the forcing variables of simulation.create_simulation_data, one cell
Forcing(rn, g, t, rh, lst) ==
    [T_mean |-> Const(1, 1, t), T_max |-> Const(1, 1, Add(t, F(5, 0))),
     T_min |-> Const(1, 1, Sub(t, F(5, 0))), RH |-> Const(1, 1, rh),
     VPD |-> Const(1, 1, F(8, -1)), Rn |-> Const(1, 1, rn), G |-> Const(1, 1, g),
     u2 |-> Const(1, 1, F(2, 0)), LAI |-> Const(1, 1, F(3, 0)),
     fAPAR |-> Const(1, 1, F(5, -1)), fIPAR |-> Const(1, 1, F(6, -1)),
     LST |-> Const(1, 1, lst), soil_moisture |-> Const(1, 1, F(3, -1)),
     ra |-> Const(1, 1, F(50, 0))]

Restrict(f, S) == [x \in S |-> f[x]]

\* Datasets that lack up to MaxMissing of the forcing variables
PresenceDatasets ==
    LET full == Forcing(F(140, 0), F(20, 0), F(20, 0), F(60, 0), F(23, 0))
    IN  {[dims |-> Grid, nt |-> 1, np |-> 1, vars |-> Restrict(full, DOMAIN full \ miss)] :
            miss \in {m \in SUBSET DOMAIN full : Cardinality(m) <= MaxMissing}}

\* Complete single-cell datasets over a range of fluxes, temperatures and
\* humidities; LST at the SSEBop cold limit (T_mean - 2) or above it; VPD
\* given or left to be derived from RH
FluxDatasets ==
    {[dims |-> Grid, nt |-> 1, np |-> 1,
      vars |-> LET full == Forcing(F(120 * i - 100, 0), F(20 + 30 * j, 0),
                                   F(25 * k - 5, 0), F(90 - 30 * h, 0),
                                   F(25 * k - 5 + l, 0))
               IN  Restrict(full, DOMAIN full \ drop)] :
        i \in 0 .. RnSteps, j \in 0 .. GSteps, k \in 0 .. TSteps, h \in 0 .. RHSteps,
        l \in {-2, 3}, drop \in {{}, {"VPD"}}}

\* ds[name] = x: the variable set to x at the one cell
With(variables, name, x) ==
    [n \in DOMAIN variables \cup {name} |->
        IF n = name THEN Const(1, 1, x) ELSE variables[n]]

\* Complete single-cell datasets at the edges of the formulas: relative
\* humidity at and beyond 0 and 100, CO2 at the compensation point, VPD at
\* -D0, soil moisture at and above its maximum, and available energy
\* slightly negative with LST at the SSEBop hot limit
EdgeDatasets ==
    LET base == Forcing(F(140, 0), F(20, 0), F(20, 0), F(60, 0), F(23, 0))
    IN  {[dims |-> Grid, nt |-> 1, np |-> 1, vars |-> v] :
            v \in {Restrict(Forcing(F(140, 0), F(20, 0), t, rh, Add(t, F(3, 0))),
                             DOMAIN base \ drop) :
                      t \in {F(-5, 0), F(20, 0), F(35, 0)},
                      rh \in {F(-10, 0), Zero, F(50, 0), F(100, 0), F(120, 0)},
                      drop \in {{}, {"VPD"}}}
                  \cup {With(base, "CO2", F(40, 0)), With(base, "VPD", F(-15, -1)),
                        With(base, "soil_moisture", F(5, -1)),
                        With(base, "soil_moisture", F(6, -1)),
                        Forcing(Zero, F(24598, -9), F(2, 0), F(60, 0), F(-1, -6)),
                        Forcing(F(20, 0), F(20, 0), F(20, 0), F(60, 0), F(18, 0))}}

\* Datasets a caller passes one after another to the same instance: two
\* complete ones that differ in Rn, and one without Rn
RepeatDatasets ==
    {[dims |-> Grid, nt |-> 1, np |-> 1,
      vars |-> LET full == Forcing(rn, F(20, 0), F(20, 0), F(60, 0), F(23, 0))
               IN  Restrict(full, DOMAIN full \ drop)] :
        rn \in {F(140, 0), F(20, 0)}, drop \in {{}, {"Rn"}}}

\* SEBAL inputs: a time series over a row of pixels, with or without the
\* lat/lon dimensions (without them there is one pixel)
GridDatasetsOf(dims, nt, np) ==
    {[dims |-> dims, nt |-> nt, np |-> np,
      vars |-> [Rn |-> Const(nt, np, F(140 - 130 * i, 0)), G |-> Const(nt, np, F(20, 0)),
                ra |-> Const(nt, np, F(50, 0)),
                LST |-> [c \in (1 .. nt) \X (1 .. np) |-> F(290 + 10 * lst[c], 0)]]] :
        lst \in [(1 .. nt) \X (1 .. np) -> 0 .. LSTSteps], i \in 0 .. GridRnSteps}

(***************************************************************************)
(* State machine: a caller holding one dataset validates it, constructs a  *)
(* model, and calls compute_et and partition_components on it.             *)
(*   check  the standalone ensure_variables call and its outcome           *)
(*   trace  the statement order of an entry point called on the dataset    *)
(*   built  the constructor call and its outcome                           *)
(*   model  the instance the constructor returned                          *)
(*   et     the outcome of model.compute_et(ds)                            *)
(*   parts  the outcome of model.partition_components(ds)                  *)
(***************************************************************************)
NoModel == [cls |-> "none", params |-> <<>>]

\* no constructor has been called
NotBuilt == [cls |-> "none", params |-> <<>>, result |-> NotCalled]

\* no entry point has been called for its statement order
NoCall == [fn |-> "none", log |-> <<>>, result |-> NotCalled]

\* keyword arguments a caller may pass to each constructor
ParamChoices(cls) ==
    CASE cls = "MOD16" -> {<<>>, [bplut_params |-> "{}"],
                           [bplut_params |-> "{'ENF': {'rbl_min': 60.0}}"]}
      [] cls = "PTJPL" -> {<<>>, [T_opt |-> F(25, 0)], [fAPAR_max |-> F(95, -2)],
                           [T_opt |-> F(25, 0), fAPAR_max |-> F(95, -2)],
                           [T_opt |-> Zero, fAPAR_max |-> F(95, -2)],
                           [T_opt |-> F(25, 0), fAPAR_max |-> Zero]}
      [] cls = "GLEAM" -> {<<>>, [soil_moisture_max |-> F(5, -1)],
                           [soil_moisture_max |-> Zero]}
      [] OTHER -> {<<>>}

RequiredPool == {"Rn", "G", "LST", "ra"}

RECURSIVE DistinctSeqs(_, _)
DistinctSeqs(S, n) ==
    IF n = 0 THEN {<<>>}
    ELSE {<<>>} \cup {<<x>> \o r : x \in S, r \in DistinctSeqs(S, n - 1)}

RequiredLists ==
    {r \in DistinctSeqs(RequiredPool, MaxRequired) :
        \A i, j \in 1 .. Len(r) : i # j => r[i] # r[j]}

InitCommon ==
    /\ model = NoModel
    /\ built = NotBuilt
    /\ et = NotCalled
    /\ parts = NotCalled
    /\ check = [required |-> <<>>, result |-> NotCalled]
    /\ trace = NoCall

Init == ds \in PresenceDatasets /\ InitCommon
InitFlux == ds \in FluxDatasets \cup EdgeDatasets /\ InitCommon
\* a dataset without lat/lon has one pixel
InitRepeat == ds \in RepeatDatasets /\ InitCommon

InitGrid ==
    /\ \E dims \in {Grid, {"time"}}, nt \in 1 .. NTimes, np \in 1 .. NPix :
          /\ dims = Grid \/ np = 1
          /\ ds \in GridDatasetsOf(dims, nt, np)
    /\ InitCommon

\* ensure_variables(ds, required) called on its own
EnsureVariablesCall ==
    /\ built.result.status = "none"
    /\ check.result.status = "none"
    /\ trace.fn = "none"
    /\ \E required \in RequiredLists :
          check' = [required |-> required, result |-> ensure_variables(ds, required)]
    /\ UNCHANGED <<ds, model, built, et, parts, trace>>

\* cls(**params): built records the call and its outcome, model the instance
Construct(cls) ==
    /\ built.result.status = "none"
    /\ check.result.status = "none"
    /\ trace.fn = "none"
    /\ \E params \in ParamChoices(cls) :
          LET r == EvapotranspirationModel_init(cls, params)
          IN  /\ built' = [cls |-> cls, params |-> params, result |-> r]
              /\ model' = IF Returned(r) THEN r.val ELSE NoModel
    /\ UNCHANGED <<ds, et, parts, check, trace>>

\* an entry point called on the dataset: trace records the statements it
\* started, in order, and how it ended
EntryPointCall ==
    /\ built.result.status = "none"
    /\ check.result.status = "none"
    /\ trace.fn = "none"
    /\ \E fn \in DOMAIN entry_points :
          LET run == Execute(entry_points[fn], ds, <<>>)
          IN  trace' = [fn |-> fn, log |-> run.log, result |-> run.result]
    /\ UNCHANGED <<ds, model, built, et, parts, check>>

ConstructMOD16 == Construct("MOD16")
ConstructPMLv2 == Construct("PMLv2")
ConstructPTJPL == Construct("PTJPL")
ConstructGLEAM == Construct("GLEAM")
ConstructSEBAL == Construct("SEBAL")
ConstructSSEBop == Construct("SSEBop")

MOD16ComputeEt ==
    /\ model.cls = "MOD16"
    /\ et' = MOD16_compute_et(model, ds)
    /\ UNCHANGED <<ds, model, built, parts, check, trace>>

PMLv2ComputeEt_reuses_components ==
    /\ model.cls = "PMLv2"
    /\ et' = IF Returned(parts)
             THEN Return([AET |-> AA(Add, parts.val.transpiration,
                                          parts.val.soil_evaporation)])
             ELSE PMLv2_compute_et(model, ds)
    /\ UNCHANGED <<ds, model, built, parts, check, trace>>

PMLv2ComputeEt_fills_defaults ==
    /\ model.cls = "PMLv2"
    /\ et' = PMLv2_compute_et(model, ds)
    /\ ds' = [ds EXCEPT !.vars = With(ds.vars, "CO2", F(400, 0))]
    /\ UNCHANGED <<model, built, parts, check, trace>>

PMLv2ComputeEt ==
    /\ model.cls = "PMLv2"
    /\ et' = PMLv2_compute_et(model, ds)
    /\ UNCHANGED <<ds, model, built, parts, check, trace>>

PTJPLComputeEt ==
    /\ model.cls = "PTJPL"
    /\ et' = PTJPL_compute_et(model, ds)
    /\ UNCHANGED <<ds, model, built, parts, check, trace>>

GLEAMComputeEt ==
    /\ model.cls = "GLEAM"
    /\ et' = GLEAM_compute_et(model, ds)
    /\ UNCHANGED <<ds, model, built, parts, check, trace>>

SEBALComputeEt ==
    /\ model.cls = "SEBAL"
    /\ et' = SEBAL_compute_et(model, ds)
    /\ UNCHANGED <<ds, model, built, parts, check, trace>>

SSEBopComputeEt ==
    /\ model.cls = "SSEBop"
    /\ et' = SSEBop_compute_et(model, ds)
    /\ UNCHANGED <<ds, model, built, parts, check, trace>>

PMLv2PartitionComponents ==
    /\ model.cls = "PMLv2"
    /\ parts' = PMLv2_partition_components(model, ds)
    /\ UNCHANGED <<ds, model, built, et, check, trace>>

PTJPLPartitionComponents ==
    /\ model.cls = "PTJPL"
    /\ parts' = PTJPL_partition_components(model, ds)
    /\ UNCHANGED <<ds, model, built, et, check, trace>>

\* MOD16, GLEAM, SEBAL and SSEBop do not override partition_components
InheritedPartitionComponents ==
    /\ model.cls \in {"MOD16", "GLEAM", "SEBAL", "SSEBop"}
    /\ parts' = EvapotranspirationModel_partition_components(model, ds)
    /\ UNCHANGED <<ds, model, built, et, check, trace>>

Next ==
    \/ EnsureVariablesCall
    \/ EntryPointCall
    \/ ConstructMOD16 \/ ConstructPMLv2 \/ ConstructPTJPL
    \/ ConstructGLEAM \/ ConstructSEBAL \/ ConstructSSEBop
    \/ MOD16ComputeEt \/ PMLv2ComputeEt \/ PTJPLComputeEt
    \/ GLEAMComputeEt \/ SEBALComputeEt \/ SSEBopComputeEt
    \/ PMLv2PartitionComponents \/ PTJPLPartitionComponents
    \/ InheritedPartitionComponents

\* the caller turns to another dataset for its next calls; the outcomes of
\* the calls made so far stay as they are
SwitchDataset ==
    /\ model # NoModel
    /\ ds' \in RepeatDatasets \ {ds}
    /\ UNCHANGED <<model, built, et, parts, check, trace>>

NextRepeat == Next \/ SwitchDataset

Spec == Init /\ [][Next]_vars
SpecRepeat == InitRepeat /\ [][NextRepeat]_vars
SpecFlux == InitFlux /\ [][Next]_vars
SpecGrid == InitGrid /\ [][Next]_vars

(***************************************************************************)
(* pet_comparison: analysis/comparison.py and the callers of the formulas. *)
(* Here ds is the DataFrame of the caller (its rows are the cells          *)
(* <<i, 1>>), model the PETComparison instance, whose forcing_data is that *)
(* same DataFrame object (line 35), et the outcome of run_all, and trace   *)
(* the outcome of a formula called directly on the columns.                *)
(***************************************************************************)
\* frame[name] = x
SetColumn(d, name, x) ==
    [d EXCEPT !.vars = [n \in DOMAIN d.vars \cup {name} |->
                           IF n = name THEN Const(d.nt, d.np, x) ELSE d.vars[n]]]

\* the statements of __init__ that write the defaults; the value is the
\* frame they leave behind
PETComparison_init(forcing_data) ==
    LET d1 == IF ~Has(forcing_data, "pressure")
              THEN SetColumn(forcing_data, "pressure", F(1013, -1)) ELSE forcing_data
        d2 == IF ~Has(forcing_data, "soil_heat_flux")
              THEN SetColumn(d1, "soil_heat_flux", Zero) ELSE d1
    IN  IF ~Has(forcing_data, "co2") THEN SetColumn(d2, "co2", F(380, 0)) ELSE d2

\* run_all and the run_* methods it calls, in order: the dict self.results
PETComparison_run_all(d) ==
    LET v == d.vars
        lai == Get(d, "lai", Const(d.nt, d.np, F(3, 0)))
        soil_moisture == Get(d, "soil_moisture", Const(d.nt, d.np, F(5, -1)))
        pml == [c \in Cells(d) |->
                   penman_monteith_leuning(v.temperature[c], v.relative_humidity[c],
                       v.wind_speed[c], v.net_radiation[c], lai[c], v.pressure[c],
                       v.soil_heat_flux[c], v.co2[c])]
        names == {"PM", "PT", "PT-JPL", "PML", "PML_transpiration", "PML_evaporation",
                  "PM-CO2", "PM-CO2-LAI", "CR-Bouchet", "CR-AA", "CR-GG"}
    IN  [name \in names |-> [c \in Cells(d) |->
            CASE name = "PM" ->
                   penman_monteith(v.temperature[c], v.relative_humidity[c],
                       v.wind_speed[c], v.net_radiation[c], v.pressure[c],
                       v.soil_heat_flux[c])
              [] name = "PT" ->
                   priestley_taylor(v.temperature[c], v.net_radiation[c],
                       v.pressure[c], v.soil_heat_flux[c])
              [] name = "PT-JPL" ->
                   priestley_taylor_jpl(v.temperature[c], v.net_radiation[c], {lai[c]},
                       {soil_moisture[c]}, v.pressure[c], v.soil_heat_flux[c])
              [] name = "PML" -> pml[c].total
              [] name = "PML_transpiration" -> pml[c].transpiration
              [] name = "PML_evaporation" -> pml[c].evaporation
              [] name = "PM-CO2" ->
                   pm_co2_aware(v.temperature[c], v.relative_humidity[c],
                       v.wind_speed[c], v.net_radiation[c], v.co2[c], v.pressure[c],
                       v.soil_heat_flux[c])
              [] name = "PM-CO2-LAI" ->
                   pm_co2_lai_aware(v.temperature[c], v.relative_humidity[c],
                       v.wind_speed[c], v.net_radiation[c], v.co2[c], lai[c],
                       v.pressure[c], v.soil_heat_flux[c]).total
              [] name = "CR-Bouchet" ->
                   bouchet_complementary(v.temperature[c], v.relative_humidity[c],
                       v.net_radiation[c], v.pressure[c], v.soil_heat_flux[c]).potential
              [] name = "CR-AA" ->
                   advection_aridity_model(v.temperature[c], v.relative_humidity[c],
                       v.wind_speed[c], v.net_radiation[c], v.pressure[c],
                       v.soil_heat_flux[c]).potential
              [] name = "CR-GG" ->
                   granger_gray_model(v.temperature[c], v.relative_humidity[c],
                       v.net_radiation[c], v.pressure[c], v.soil_heat_flux[c])]]

\* The functions a caller applies to the columns of its frame.  An optional
\* argument is passed when the frame has the column and is left at the
\* default of the signature otherwise.
formula_names ==
    {"saturation_vapor_pressure", "slope_saturation_vapor_pressure",
     "penman_monteith", "priestley_taylor", "priestley_taylor_jpl",
     "penman_monteith_leuning", "pm_co2_aware", "pm_co2_lai_aware",
     "bouchet_complementary", "advection_aridity_model", "granger_gray_model"}

\* the columns a call cannot do without
formula_arguments(fn) ==
    CASE fn \in {"penman_monteith_leuning"} -> {"lai"}
      [] fn \in {"pm_co2_aware"} -> {"co2"}
      [] fn \in {"pm_co2_lai_aware"} -> {"co2", "lai"}
      [] OTHER -> {}

\* the value of fn at row c of the frame
formula_call(fn, d, c) ==
    LET v == d.vars
        t == v.temperature[c]
        rh == v.relative_humidity[c]
        u == v.wind_speed[c]
        rn == v.net_radiation[c]
        pressure == IF Has(d, "pressure") THEN v.pressure[c] ELSE F(1013, -1)
        g == IF Has(d, "soil_heat_flux") THEN v.soil_heat_flux[c] ELSE Zero
        co2 == IF Has(d, "co2") THEN v.co2[c] ELSE F(380, 0)
        lai == IF Has(d, "lai") THEN v.lai[c] ELSE None
        optional(name) == IF Has(d, name) THEN {v[name][c]} ELSE {}
    IN  CASE fn = "saturation_vapor_pressure" -> saturation_vapor_pressure(t)
          [] fn = "slope_saturation_vapor_pressure" -> slope_saturation_vapor_pressure(t)
          [] fn = "penman_monteith" -> penman_monteith(t, rh, u, rn, pressure, g)
          [] fn = "priestley_taylor" -> priestley_taylor(t, rn, pressure, g)
          [] fn = "priestley_taylor_jpl" ->
               priestley_taylor_jpl(t, rn, optional("lai"), optional("soil_moisture"),
                                    pressure, g)
          [] fn = "penman_monteith_leuning" ->
               penman_monteith_leuning(t, rh, u, rn, lai, pressure, g, co2)
          [] fn = "pm_co2_aware" -> pm_co2_aware(t, rh, u, rn, co2, pressure, g)
          [] fn = "pm_co2_lai_aware" ->
               pm_co2_lai_aware(t, rh, u, rn, co2, lai, pressure, g)
          [] fn = "bouchet_complementary" -> bouchet_complementary(t, rh, rn, pressure, g)
          [] fn = "advection_aridity_model" ->
               advection_aridity_model(t, rh, u, rn, pressure, g)
          [] fn = "granger_gray_model" -> granger_gray_model(t, rh, rn, pressure, g)

\* Frames of two rows with the four columns every formula needs: mild and
\* freezing temperatures, two of them 0.01 degrees apart, moderate and
\* saturated humidity, calm and breezy air, no and ample net radiation; alone
\* (0), with every optional column (1: soil heat flux above the net
\* radiation the soil receives), or with co2 and lai only (2)
PetFrames ==
    LET col(x, y) == (<<1, 1>> :> x) @@ (<<2, 1>> :> y)
        temps == {F(-90, 0), F(-5, 0), F(20, 0), F(2001, -2), F(60, 0)}
    IN  {[dims |-> {"index"}, nt |-> 2, np |-> 1,
          vars |-> LET base == [temperature |-> col(t1, t2),
                                relative_humidity |-> col(rh, rh),
                                wind_speed |-> col(u, u),
                                net_radiation |-> col(rn, rn)]
                   IN  CASE opt = 0 -> base
                         [] opt = 1 ->
                              base @@ [pressure |-> col(F(90, 0), F(1013, -1)),
                                       soil_heat_flux |-> col(F(5, 0), F(5, -1)),
                                       co2 |-> col(F(550, 0), F(380, 0)),
                                       lai |-> col(F(3, 0), Zero),
                                       soil_moisture |-> col(F(5, -1), F(2, -1))]
                         [] opt = 2 ->
                              base @@ [co2 |-> col(F(400, 0), F(400, 0)),
                                       lai |-> col(One, F(5, 0))]] :
            t1 \in temps, t2 \in temps, rh \in {F(60, 0), F(100, 0)},
            u \in {Zero, F(25, -1)}, rn \in {Zero, F(15, 0)}, opt \in 0 .. 2}

InitPet == ds \in PetFrames /\ InitCommon

\* a formula called on the columns of the frame
FormulaCall ==
    /\ model = NoModel
    /\ trace.fn = "none"
    /\ \E fn \in formula_names :
          /\ formula_arguments(fn) \subseteq DOMAIN ds.vars
          /\ trace' = [fn |-> fn, log |-> <<>>,
                       result |-> Return([c \in Cells(ds) |-> formula_call(fn, ds, c)])]
    /\ UNCHANGED <<ds, model, built, et, parts, check>>

PETComparisonConstruct_copies ==
    /\ model = NoModel
    /\ trace.fn = "none"
    /\ model' = [cls |-> "PETComparison",
                 params |-> [forcing_data |-> PETComparison_init(ds)]]
    /\ built' = [cls |-> "PETComparison", params |-> <<>>, result |-> Return(model')]
    /\ UNCHANGED <<ds, et, parts, check, trace>>

\* PETComparison(data): the defaults are written through self.forcing_data,
\* which is the caller's frame
PETComparisonConstruct ==
    /\ model = NoModel
    /\ trace.fn = "none"
    /\ ds' = PETComparison_init(ds)
    /\ model' = [cls |-> "PETComparison", params |-> <<>>]
    /\ built' = [cls |-> "PETComparison", params |-> <<>>, result |-> Return(model')]
    /\ UNCHANGED <<et, parts, check, trace>>

\* comparison.run_all()
RunAll ==
    /\ model.cls = "PETComparison"
    /\ et' = Return(PETComparison_run_all(ds))
    /\ UNCHANGED <<ds, model, built, parts, check, trace>>

NextPet == FormulaCall \/ PETComparisonConstruct \/ RunAll

SpecPet == InitPet /\ [][NextPet]_vars

(***************************************************************************)
(* Properties                                                              *)
(***************************************************************************)
\* C1: compute_et on a dataset that holds every forcing variable returns an
\* AET field, and no value of it is below zero.
C1_ComputeEtNonNegative ==
    (et.status # "none" /\ DOMAIN Forcing(Zero, Zero, Zero, Zero, Zero) \subseteq DOMAIN ds.vars)
        => /\ Returned(et)
           /\ \A c \in DOMAIN et.val.AET : ~Lt(et.val.AET[c], Zero)

\* C2: ensure_variables(ds, required) raises a ValueError whose message names
\* every required field that ds lacks, and returns without raising when ds
\* lacks none.
C2_EnsureVariablesNamesAllMissing ==
    check.result.status # "none" =>
        LET missing == Range(check.required) \ DOMAIN ds.vars
        IN  IF missing = {} THEN check.result = Return(None)
            ELSE /\ Raised(check.result)
                 /\ check.result.exc = "ValueError"
                 /\ missing \subseteq Range(check.result.msg)

\* ensure_variables has raised for a call with two required fields absent
C2_Witness ==
    /\ Raised(check.result)
    /\ Cardinality(Range(check.required) \ DOMAIN ds.vars) = 2

\* C3: for PMLv2 and PTJPL, once compute_et and partition_components have both
\* been called on the dataset, both have returned and at every cell the
\* components sum to AET within a relative tolerance of 1e-5.
C3_PartitionSumsToTotal ==
    (model.cls \in {"PMLv2", "PTJPL"} /\ et.status # "none" /\ parts.status # "none")
        => /\ Returned(et)
           /\ Returned(parts)
           /\ \A c \in DOMAIN et.val.AET :
                 LET p == parts.val
                     total == IF model.cls = "PMLv2"
                              THEN Add(p.transpiration[c], p.soil_evaporation[c])
                              ELSE Add(Add(p.interception[c], p.soil_evaporation[c]),
                                       p.transpiration[c])
                     diff == Sub(total, et.val.AET[c])
                     aet == et.val.AET[c]
                 IN  Le(IF Lt(diff, Zero) THEN Neg(diff) ELSE diff,
                        Mul(F(1, -5), IF Lt(aet, Zero) THEN Neg(aet) ELSE aet))

\* C4: partition_components on MOD16, GLEAM, SEBAL or SSEBop ends in
\* NotImplementedError, whatever the dataset; it never returns.
C4_PartitionNotSupported ==
    (parts.status # "none" /\ model.cls \in {"MOD16", "GLEAM", "SEBAL", "SSEBop"})
        => Raised(parts) /\ parts.exc = "NotImplementedError"

\* partition_components has been called on a GLEAM instance and has raised
C4_Witness ==
    model.cls = "GLEAM" /\ Raised(parts) /\ parts.exc = "NotImplementedError"

\* C5: a constructor called without some of the options its model requires
\* (MOD16: bplut_params; PTJPL: T_opt, fAPAR_max; GLEAM: soil_moisture_max)
\* raises a ValueError whose message names every missing option and produces
\* no instance; called with all of them (PMLv2, SEBAL, SSEBop: with none) it
\* returns the instance holding the options as given.
C5_ConstructionNamesMissingOptions ==
    built.result.status # "none" =>
        LET required == CASE built.cls = "MOD16" -> {"bplut_params"}
                          [] built.cls = "PTJPL" -> {"T_opt", "fAPAR_max"}
                          [] built.cls = "GLEAM" -> {"soil_moisture_max"}
                          [] OTHER -> {}
            missing == required \ DOMAIN built.params
        IN  IF missing = {}
            THEN /\ built.result = Return([cls |-> built.cls, params |-> built.params])
                 /\ model = built.result.val
            ELSE /\ Raised(built.result)
                 /\ built.result.exc = "ValueError"
                 /\ missing \subseteq Range(built.result.msg)
                 /\ model = NoModel

\* PTJPL() has been called with no options and has raised
C5_Witness ==
    built.cls = "PTJPL" /\ built.params = <<>> /\ Raised(built.result)

\* C6: SEBAL.compute_et on a dataset with a single spatial pixel raises a
\* ValueError or a KeyError; it does not return.
C6_SinglePixelRaises ==
    (model.cls = "SEBAL" /\ et.status # "none" /\ ds.np = 1)
        => Raised(et) /\ et.exc \in {"ValueError", "KeyError"}

\* C7: when SEBAL.compute_et returns for a dataset with lat/lon dimensions and
\* pixels that differ in surface temperature, AET is defined (not NaN) at
\* every cell.
C7_DefinedAtEveryCell ==
    (/\ model.cls = "SEBAL"
     /\ Returned(et)
     /\ {"lat", "lon"} \subseteq ds.dims
     /\ \E t \in 1 .. ds.nt : \E p, q \in 1 .. ds.np :
           ds.vars["LST"][<<t, p>>] # ds.vars["LST"][<<t, q>>])
        => \A c \in DOMAIN et.val.AET : ~IsNaN(et.val.AET[c])

\* C8: the calibration of a SEBAL.compute_et call holds one slope and one
\* intercept: all pixels at which the slope is defined share the same slope
\* and the same intercept.
C8_OneCalibrationLine ==
    (model.cls = "SEBAL" /\ et.status # "none" /\ Returned(SEBAL_calibration(ds)))
        => LET cal == SEBAL_calibration(ds).val
           IN  \A p, q \in 1 .. ds.np :
                  (~IsNaN(cal.a[p]) /\ ~IsNaN(cal.a[q]))
                      => cal.a[p] = cal.a[q] /\ cal.b[p] = cal.b[q]

\* C9: when LST equals the cold limit (T_mean - 2) at every cell, SSEBop's
\* evaporative fraction is 1 and the AET compute_et returns equals the FAO-56
\* reference ET at every cell.
C9_ColdLimitGivesReferenceEt ==
    (/\ model.cls = "SSEBop"
     /\ et.status # "none"
     /\ DOMAIN Forcing(Zero, Zero, Zero, Zero, Zero) \subseteq DOMAIN ds.vars
     /\ \A c \in Cells(ds) : ds.vars["LST"][c] = Sub(ds.vars["T_mean"][c], F(2, 0)))
        => /\ Returned(et)
           /\ \A c \in Cells(ds) :
                 /\ SSEBop_compute_et_fraction(model, ds)[c] = One
                 /\ et.val.AET[c] = fao56_penman_monteith(ds).val[c]

\* C10: in a MOD16.compute_et call, at a cell with relative humidity above 80
\* the surface resistance takes the wet-canopy value: the weight of the
\* wet-canopy resistance (50 s/m) in r_s is 1 there.
C10_HumidCellsUseWetCanopy ==
    (model.cls = "MOD16" /\ et.status # "none" /\ Has(ds, "RH"))
        => \A c \in Cells(ds) :
              Gt(ds.vars["RH"][c], F(80, 0)) => MOD16_wet_canopy(MOD16_rh(ds))[c] = One


\* C11: an entry point called on a dataset that lacks one of the fields it
\* validates or reads ends in the missing-field ValueError, and every
\* statement it started before that is a field check: no arithmetic on dataset
\* fields, no clipping and no quantile has been started.
C11_FieldCheckRunsFirst ==
    LET stmts == IF trace.fn = "none" THEN <<>> ELSE entry_points[trace.fn]
        needed == UNION {Range(stmts[i].names) :
                            i \in {j \in DOMAIN stmts :
                                      stmts[j].op \in {"ensure_variables", "require", "arith"}}}
    IN  (trace.fn # "none" /\ ~(needed \subseteq DOMAIN ds.vars)) =>
            /\ Raised(trace.result)
            /\ trace.result.exc = "ValueError"
            /\ \A i \in DOMAIN trace.log :
                  trace.log[i].op \in {"ensure_variables", "require"}

C11_Witness ==
    /\ trace.fn = "fao56_penman_monteith"
    /\ DOMAIN Forcing(Zero, Zero, Zero, Zero, Zero) \ DOMAIN ds.vars = {"RH"}
    /\ Raised(trace.result)
    /\ Len(trace.log) = 2

\* C12: fao56_penman_monteith on a dataset that lacks some of T_mean, T_max,
\* T_min, Rn, G, u2, RH raises a ValueError whose message names every one of
\* the missing fields, RH included when it is missing together with others;
\* with none missing it returns.
C12_Fao56NamesAllMissing ==
    LET required == {"T_mean", "T_max", "T_min", "Rn", "G", "u2", "RH"}
        missing == required \ DOMAIN ds.vars
    IN  trace.fn = "fao56_penman_monteith" =>
            IF missing = {} THEN Returned(trace.result)
            ELSE /\ Raised(trace.result)
                 /\ trace.result.exc = "ValueError"
                 /\ missing \subseteq Range(trace.result.msg)

\* C13: a constructor given a required option whose value makes the model's
\* own division undefined (GLEAM soil_moisture_max = 0, PTJPL T_opt = 0 or
\* fAPAR_max = 0) fails with the parameter error and produces no instance.
C13_InvalidOptionsRejected ==
    LET given(name) == name \in DOMAIN built.params
        zero(name) == given(name) /\ built.params[name] = Zero
    IN  (\/ built.cls = "GLEAM" /\ zero("soil_moisture_max")
         \/ built.cls = "PTJPL" /\ (zero("T_opt") \/ zero("fAPAR_max")))
        => /\ Raised(built.result)
           /\ built.result.exc = "ValueError"
           /\ model = NoModel

\* C14: in a SSEBop.compute_et call on a dataset holding every field it needs,
\* the denominator hot limit - cold limit + 1e-6 of the evaporative fraction
\* is not zero at any cell, and the fraction is a number in [0, 1].
C14_EtFractionDefined ==
    (/\ model.cls = "SSEBop" /\ et.status # "none"
     /\ Range(SSEBop_REQUIRED) \subseteq DOMAIN ds.vars) =>
        LET tc == SSEBop_compute_cold_limit(model, ds)
            th == SSEBop_compute_hot_limit(model, ds, tc)
            etf == SSEBop_compute_et_fraction(model, ds)
        IN  \A c \in DOMAIN etf :
                /\ Add(Sub(th[c], tc[c]), F(1, -6)) # Zero
                /\ ~IsNaN(etf[c])
                /\ Le(Zero, etf[c]) /\ Le(etf[c], One)

\* C15: in a PMLv2 call on a dataset holding Rn, G and T_mean, the canopy
\* conductance is finite and at least 1e-4 at every cell, also with CO2 at the
\* compensation point and with VPD at -D0.
C15_CanopyConductanceFinite ==
    (/\ model.cls = "PMLv2" /\ et.status # "none"
     /\ {"Rn", "G", "T_mean"} \subseteq DOMAIN ds.vars) =>
        LET gc == PMLv2_compute_canopy_conductance(model, ds)
        IN  \A c \in DOMAIN gc : IsFin(gc[c]) /\ Le(F(1, -4), gc[c])

\* C16: the vapour pressure deficit _vpd_from_rh(T_mean, RH) that a PMLv2 call
\* computes lies in [0, es(T_mean)] at every cell, whatever RH is; it equals
\* es(T_mean) where RH <= 0 and 0 where RH >= 100.
C16_VpdWithinSaturation ==
    (/\ model.cls = "PMLv2" /\ et.status # "none"
     /\ {"Rn", "G", "T_mean", "RH"} \subseteq DOMAIN ds.vars) =>
        LET rh == ds.vars["RH"]
            es == saturation_vapour_pressure(ds.vars["T_mean"])
            vpd == vpd_from_rh(ds.vars["T_mean"], rh)
        IN  \A c \in DOMAIN vpd :
                /\ Le(Zero, vpd[c]) /\ Le(vpd[c], es[c])
                /\ Le(rh[c], Zero) => vpd[c] = es[c]
                /\ Le(F(100, 0), rh[c]) => vpd[c] = Zero

\* C17: the vapour pressure deficit _vpd_from_rh(T_mean, RH) that a PMLv2 call
\* computes is 0 where RH = 100 and es(T_mean) where RH = 0, and where RH = 50
\* the actual vapour pressure es - vpd is half of es; each to within a
\* millionth of es(T_mean).
C17_VpdAtHumidityMarks ==
    (/\ model.cls = "PMLv2" /\ et.status # "none"
     /\ {"Rn", "G", "T_mean", "RH"} \subseteq DOMAIN ds.vars) =>
        LET rh == ds.vars["RH"]
            es == saturation_vapour_pressure(ds.vars["T_mean"])
            vpd == vpd_from_rh(ds.vars["T_mean"], rh)
            near(x, y, c) ==
                LET diff == Sub(x, y)
                IN  Le(IF Lt(diff, Zero) THEN Neg(diff) ELSE diff, Mul(F(1, -6), es[c]))
        IN  \A c \in DOMAIN vpd :
                /\ rh[c] = F(100, 0) => near(vpd[c], Zero, c)
                /\ rh[c] = Zero => near(vpd[c], es[c], c)
                /\ rh[c] = F(50, 0) => near(Sub(es[c], vpd[c]), Div(es[c], F(2, 0)), c)

C17_Witness ==
    /\ model.cls = "PMLv2" /\ Returned(et)
    /\ {"Rn", "G", "T_mean", "RH"} \subseteq DOMAIN ds.vars
    /\ \A c \in DOMAIN ds.vars["RH"] :
          ds.vars["RH"][c] = F(100, 0) /\ Lt(F(30, 0), ds.vars["T_mean"][c])
    /\ ~Has(ds, "VPD")
    /\ \A c \in DOMAIN et.val.AET : IsFin(et.val.AET[c])

\* C18: PTJPL.partition_components on a dataset holding every field PTJPL needs,
\* with RH = 100 at every cell, returns an interception equal to the canopy
\* potential flux 1.26 * delta / (delta + gamma) * 0.6 * (Rn - G) in mm/day and
\* a transpiration of 0.
C18_SaturatedAirAllInterception ==
    (/\ model.cls = "PTJPL" /\ parts.status # "none"
     /\ Range(PTJPL_REQUIRED) \subseteq DOMAIN ds.vars
     /\ \A c \in DOMAIN ds.vars["RH"] : ds.vars["RH"][c] = F(100, 0)) =>
        LET rn_c == SA(Mul, F(6, -1), AA(Sub, ds.vars["Rn"], ds.vars["G"]))
            canopy == AS(Mul, PTJPL_calc_alpha_term(slope_svp_curve(ds.vars["T_mean"]),
                                                    CONSTANTS_["GAMMA"], rn_c),
                              PTJPL_mm_conversion)
        IN  /\ Returned(parts)
            /\ \A c \in DOMAIN canopy :
                  /\ parts.val.interception[c] = canopy[c]
                  /\ parts.val.transpiration[c] = Zero

\* C19: in a PTJPL.compute_et call on a dataset holding every field PTJPL
\* needs, each of the five constraint factors f_wet, f_sm, f_c, f_t and f_m is
\* computed and lies in [0, 1] at every cell.
C19_ConstraintFactorsAreFractions ==
    (/\ model.cls = "PTJPL" /\ et.status # "none"
     /\ Range(PTJPL_REQUIRED) \subseteq DOMAIN ds.vars) =>
        LET fraction(f) == \A c \in DOMAIN f : Le(Zero, f[c]) /\ Le(f[c], One)
            f_sm == PTJPL_calc_f_sm(Get(ds, "VPD", Full(ds.vars["RH"], One)),
                                    Get(ds, "RH_min", AS(Mul, ds.vars["RH"], F(75, -2))))
            f_m == PTJPL_calc_f_m(model, ds.vars["fAPAR"])
        IN  /\ fraction(PTJPL_calc_f_wet(ds.vars["RH"]))
            /\ Returned(f_sm) /\ fraction(f_sm.val)
            /\ fraction(PTJPL_calc_f_c(ds.vars["fAPAR"], ds.vars["fIPAR"]))
            /\ fraction(PTJPL_calc_f_t(model, ds.vars["T_max"]))
            /\ Returned(f_m) /\ fraction(f_m.val)

\* C20: GLEAM.compute_et on a dataset whose soil moisture is at or above the
\* model's positive soil_moisture_max at every cell returns the Priestley-Taylor
\* potential flux 1.26 * delta / (delta + gamma) * (Rn - G), converted to
\* mm/day, unreduced.
C20_SaturatedSoilGivesPotentialEt ==
    (/\ model.cls = "GLEAM" /\ et.status # "none"
     /\ {"Rn", "G", "T_mean", "soil_moisture"} \subseteq DOMAIN ds.vars
     /\ Lt(Zero, model.params["soil_moisture_max"])
     /\ \A c \in DOMAIN ds.vars["soil_moisture"] :
           Le(model.params["soil_moisture_max"], ds.vars["soil_moisture"][c])) =>
        LET potential_et == GLEAM_potential_et(ds, slope_svp_curve(ds.vars["T_mean"]),
                                               CONSTANTS_["GAMMA"])
        IN  /\ Returned(et)
            /\ et.val.AET = to_mm_per_day(potential_et)

\* C21: no step changes the dataset, and no step after construction changes
\* the instance: compute_et, partition_components and the validator, whether
\* they return or raise, leave every field of the dataset and the instance's
\* construction parameters as they were.
C21_CallsLeaveInputsUnchanged ==
    [][ds' = ds /\ (model # NoModel => model' = model)]_vars

C21_Witness ==
    /\ model.cls = "PMLv2" /\ Returned(et) /\ Returned(parts)
    /\ model = built.result.val

C28_PMLv2IgnoresValuesOfG ==
    LET other(g) == [ds EXCEPT !.vars = With(ds.vars, "G", g)]
        values == {Zero, F(-50, 0), F(200, 0), F(140, 0)}
        names_g(r) == Raised(r) /\ r.exc = "ValueError" /\ "G" \in Range(r.msg)
    IN  model.cls = "PMLv2" =>
            /\ et.status # "none" =>
                   IF Has(ds, "G")
                   THEN \A g \in values : PMLv2_compute_et(model, other(g)) = et
                   ELSE names_g(et)
            /\ parts.status # "none" =>
                   IF Has(ds, "G")
                   THEN \A g \in values :
                            PMLv2_partition_components(model, other(g)) = parts
                   ELSE names_g(parts)

C28_Witness ==
    /\ model.cls = "PMLv2" /\ Has(ds, "G")
    /\ Returned(et) /\ Returned(parts)
    /\ ds.vars["G"] # Const(1, 1, F(200, 0))

C30_SSEBopImplementationsAgree ==
    LET other == energy_balance_SSEBop_compute_et(model, ds)
        fields == DOMAIN Forcing(Zero, Zero, Zero, Zero, Zero)
        named(r) == Range(r.msg) \cap fields
    IN  (model.cls = "SSEBop" /\ et.status # "none") =>
            \/ Returned(et) /\ Returned(other) /\ et.val = other.val
            \/ /\ Raised(et) /\ Raised(other)
               /\ et.exc = "ValueError" /\ other.exc = "ValueError"
               /\ named(et) = named(other)

C25_ComponentsSumToTotal ==
    trace.fn \in {"pm_co2_lai_aware", "penman_monteith_leuning"} =>
        \A c \in DOMAIN trace.result.val :
            LET r == trace.result.val[c]
                diff == Sub(Add(r.transpiration, r.evaporation), r.total)
                magnitude(x) == IF Lt(x, Zero) THEN Neg(x) ELSE x
            IN  Le(magnitude(diff), Mul(F(1, -5), magnitude(r.total)))

C27_DefaultsWrittenIntoCallersFrame ==
    [][(model = NoModel /\ model'.cls = "PETComparison") =>
          LET defaults == [pressure |-> F(1013, -1), soil_heat_flux |-> Zero,
                           co2 |-> F(380, 0)]
          IN  /\ DOMAIN ds'.vars = DOMAIN ds.vars \cup DOMAIN defaults
              /\ \A n \in DOMAIN ds.vars : ds'.vars[n] = ds.vars[n]
              /\ \A n \in DOMAIN defaults \ DOMAIN ds.vars :
                     /\ DOMAIN ds'.vars[n] = Cells(ds)
                     /\ \A c \in Cells(ds) : ds'.vars[n][c] = defaults[n]
              /\ ds'.nt = ds.nt /\ ds'.np = ds.np]_vars

C27_Witness ==
    /\ model.cls = "PETComparison"
    /\ "lai" \in DOMAIN ds.vars /\ "soil_moisture" \notin DOMAIN ds.vars
    /\ ds.vars["co2"][<<1, 1>>] = F(400, 0)
    /\ ds.vars["pressure"][<<1, 1>>] = F(1013, -1)
    /\ ds.vars["soil_heat_flux"][<<2, 1>>] = Zero

====
